---- MODULE Spec2Model ----
(***************************************************************************)
(* A model of the renderer of src/write/abc_renderer.js: the vertical      *)
(* cursor, the padding and spacing tables, the text output, the path      *)
(* accumulator and the glyph composer.                                    *)
(*                                                                         *)
(* Lengths are integers counting 1/1200 of a pixel, so that the source's  *)
(* hundredths of a pixel (7.56), the 4/3 point-to-pixel conversion, the    *)
(* tenth of the 3.875-pixel staff step and the kerning ratios 2/3, 5/6     *)
(* and 5/8 are all exact.  Pitches count tenths of a staff step.           *)
(* JavaScript values that may be undefined, null or NaN are       *)
(* tagged tuples.                                                          *)
(***************************************************************************)
EXTENDS Integers, Sequences, FiniteSets, TLC

VARIABLES
    y,                \* this.y: the vertical cursor
    abctune,          \* this.abctune: the tune of the last newTune, or null
    lastM,            \* this.lastM: cumulative origin of the group, or null
    ingroup,          \* this.ingroup
    path,             \* this.path: the pending commands of the group, or null
    isPrint,          \* this.isPrint
    spacing,          \* this.spacing: the table of named vertical spaces
    padding,          \* this.padding: top, bottom, left, right
    paddingOverride,  \* this.paddingOverride: undefined until setPaddingOverride
    measureNumber,    \* this.measureNumber
    noteNumber,       \* this.noteNumber
    lineNumber,       \* this.lineNumber, set by the engraver
    voiceNumber,      \* this.voiceNumber, set by the engraver
    shouldAddClasses, \* this.shouldAddClasses, given to the constructor
    canvas,           \* the elements this.paper holds, in emission order
    history,          \* the elements handed to controller.recordHistory
    call,             \* the last operation called, with its arguments
    ret,              \* what that operation returned
    threw,            \* whether it ended by throwing a TypeError
    pre,              \* the cursor y when that operation was called
    added,            \* the fragments handed to addPath since path was last emptied
    idle,             \* which of them, by position, were handed outside a group
    arcs,             \* the drawArc calls so far: arguments and element drawn
    tunes,            \* how many tunes have been started (bounded by MaxTunes)
    steps             \* how many operations of a render pass have run (MaxSteps)

vars == <<y, abctune, lastM, ingroup, path, isPrint, spacing, padding,
          paddingOverride, measureNumber, noteNumber, lineNumber, voiceNumber,
          shouldAddClasses, canvas, history, call, ret, threw, pre, added,
          idle, arcs, tunes, steps>>

----------------------------------------------------------------------------
(* Bounds of the model *)

MaxTunes == 2
MaxEmit == 1
MaxTexts == 1
MaxY == 60
MaxFrags == 2
MaxArcs == 2
MaxSteps == 2

----------------------------------------------------------------------------
(* JavaScript values *)

Undefined == <<"undefined">>
Null == <<"null">>
NaN == <<"NaN">>
Num(n) == <<"number", n>>
IsNum(v) == v[1] = "number"
Val(v) == v[2]
\* an object or array reference, as opposed to undefined or null
Obj(o) == <<"object", o>>

\* n pixels, and n hundredths of a pixel, in the model's unit
Px(n) == n * 1200
Hundredths(n) == n * 12

----------------------------------------------------------------------------
(* The score document: formatting overrides and the media *)

MarginKeys == {"topmargin", "botmargin", "leftmargin", "rightmargin"}
SpaceKeys == {"staffsep", "composerspace", "partsspace", "textspace",
              "musicspace", "titlespace", "sysstaffsep", "subtitlespace",
              "topspace", "vocalspace", "wordsspace"}
FontKeys == {"titlefont", "debugfont"}
FormattingKeys == MarginKeys \cup SpaceKeys \cup FontKeys

\* a formatting that defines exactly the keys of ks: margins in pixels,
\* spaces in points
Formatting(ks) ==
    [k \in FormattingKeys |->
        IF k \notin ks THEN Undefined
        ELSE IF k \in MarginKeys THEN Num(Px(50))
        ELSE Num(30)]

Tune(formatting, media) == [formatting |-> formatting, media |-> media]

----------------------------------------------------------------------------
(* initVerticalSpace and setVerticalSpace *)

initVerticalSpace ==
    [composer |-> Hundredths(756),
     graceBefore |-> Hundredths(867),
     graceInside |-> Hundredths(1067),
     graceAfter |-> Px(16),
     info |-> 0,
     lineSkipFactor |-> Hundredths(110),
     music |-> Hundredths(756),
     paragraphSkipFactor |-> Hundredths(40),
     parts |-> Hundredths(1133),
     slurHeight |-> Hundredths(100),
     staffSeparation |-> Hundredths(6133),
     stemHeight |-> Hundredths(2667) + Px(10),
     subtitle |-> Hundredths(378),
     systemStaffSeparation |-> Px(48),
     text |-> Hundredths(1890),
     title |-> Hundredths(756),
     top |-> Hundredths(3024),
     vocal |-> Hundredths(3067),
     words |-> 0]

\* (a conversion that multiplies by 3/4 instead)
PtToPx_inverted(pt) == (Px(pt) * 3) \div 4

\* formatting.<key> *4/3: points to pixels
PtToPx(pt) == (Px(pt) * 4) \div 3

SetSpace(sp, formatting, fkey, skey) ==
    IF formatting[fkey] # Undefined
    THEN [sp EXCEPT ![skey] = PtToPx(Val(formatting[fkey]))]
    ELSE sp

setVerticalSpace(sp, formatting) ==
    LET s1 == SetSpace(sp, formatting, "staffsep", "staffSeparation")
        s2 == SetSpace(s1, formatting, "composerspace", "composer")
        s3 == SetSpace(s2, formatting, "partsspace", "parts")
        s4 == SetSpace(s3, formatting, "textspace", "text")
        s5 == SetSpace(s4, formatting, "musicspace", "music")
        s6 == SetSpace(s5, formatting, "titlespace", "title")
        s7 == SetSpace(s6, formatting, "sysstaffsep", "systemStaffSeparation")
        s8 == SetSpace(s7, formatting, "subtitlespace", "subtitle")
        s9 == SetSpace(s8, formatting, "topspace", "top")
        s10 == SetSpace(s9, formatting, "vocalspace", "vocal")
    IN  SetSpace(s10, formatting, "wordsspace", "words")

----------------------------------------------------------------------------
(* setPaddingOverride and setPadding *)

NoPadding == [k \in {"top", "bottom", "left", "right"} |-> Undefined]

\* (a resolution that lets the renderer's override win over the document)
setPaddingVariable_overrideFirst(st, over, tune, print, paddingKey, formattingKey, printDefault, screenDefault) ==
    IF st.threw THEN st
    ELSE IF over = Undefined
    THEN [st EXCEPT !.threw = TRUE]
    ELSE IF Val(over)[paddingKey] # Undefined
    THEN [st EXCEPT !.padding[paddingKey] = Val(over)[paddingKey]]
    ELSE IF tune.formatting[formattingKey] # Undefined
    THEN [st EXCEPT !.padding[paddingKey] = tune.formatting[formattingKey]]
    ELSE IF print
    THEN [st EXCEPT !.padding[paddingKey] = Num(Px(printDefault))]
    ELSE [st EXCEPT !.padding[paddingKey] = Num(Px(screenDefault))]

\* (a resolution that skips the renderer's override)
setPaddingVariable_noOverride(st, over, tune, print, paddingKey, formattingKey, printDefault, screenDefault) ==
    IF st.threw THEN st
    ELSE IF tune.formatting[formattingKey] # Undefined
    THEN [st EXCEPT !.padding[paddingKey] = tune.formatting[formattingKey]]
    ELSE IF over = Undefined
    THEN [st EXCEPT !.threw = TRUE]
    ELSE IF print
    THEN [st EXCEPT !.padding[paddingKey] = Num(Px(printDefault))]
    ELSE [st EXCEPT !.padding[paddingKey] = Num(Px(screenDefault))]

\* One call of setPaddingVariable on st = [padding, threw].  Reading a key of
\* this.paddingOverride while it is still undefined throws a TypeError, and
\* the calls after it never run.
setPaddingVariable(st, over, tune, print, paddingKey, formattingKey, printDefault, screenDefault) ==
    IF st.threw THEN st
    ELSE IF tune.formatting[formattingKey] # Undefined
    THEN [st EXCEPT !.padding[paddingKey] = tune.formatting[formattingKey]]
    ELSE IF over = Undefined
    THEN [st EXCEPT !.threw = TRUE]
    ELSE IF Val(over)[paddingKey] # Undefined
    THEN [st EXCEPT !.padding[paddingKey] = Val(over)[paddingKey]]
    ELSE IF print
    THEN [st EXCEPT !.padding[paddingKey] = Num(Px(printDefault))]
    ELSE [st EXCEPT !.padding[paddingKey] = Num(Px(screenDefault))]

setPadding(pad, over, tune, print) ==
    LET p0 == [padding |-> pad, threw |-> FALSE]
        p1 == setPaddingVariable(p0, over, tune, print, "top", "topmargin", 38, 15)
        p2 == setPaddingVariable(p1, over, tune, print, "bottom", "botmargin", 38, 15)
        p3 == setPaddingVariable(p2, over, tune, print, "left", "leftmargin", 68, 15)
    IN  setPaddingVariable(p3, over, tune, print, "right", "rightmargin", 68, 15)

----------------------------------------------------------------------------
(* The renderer after construction: the constructor leaves padding empty,  *)
(* never sets paddingOverride, keeps its shouldAddClasses argument, and    *)
(* calls reset                                                             *)

Renderer(addClassesFlag) ==
    /\ y = 0
    /\ abctune = Null
    /\ lastM = Null
    /\ ingroup = FALSE
    /\ path = Null
    /\ isPrint = FALSE
    /\ spacing = initVerticalSpace
    /\ padding = NoPadding
    /\ paddingOverride = Undefined
    /\ measureNumber = Undefined
    /\ noteNumber = Undefined
    /\ lineNumber = Undefined
    /\ voiceNumber = Undefined
    /\ shouldAddClasses = addClassesFlag
    /\ canvas = <<>>
    /\ history = <<>>
    /\ call = [op |-> "Renderer"]
    /\ ret = Undefined
    /\ threw = FALSE
    /\ pre = 0
    /\ added = <<>>
    /\ idle = {}
    /\ arcs = <<>>
    /\ tunes = 0
    /\ steps = 0

\* new Renderer(paper, doRegression): class tagging is off unless asked for
Init == Renderer(FALSE)

reset ==
    /\ canvas' = <<>>
    /\ y' = 0
    /\ abctune' = Null
    /\ lastM' = Null
    /\ ingroup' = FALSE
    /\ path' = Null
    /\ isPrint' = FALSE
    /\ spacing' = initVerticalSpace
    /\ call' = [op |-> "reset"]
    /\ ret' = Undefined
    /\ threw' = FALSE
    /\ pre' = y
    /\ added' = <<>>
    /\ idle' = {}
    /\ UNCHANGED <<padding, paddingOverride, measureNumber, noteNumber,
                   lineNumber, voiceNumber, shouldAddClasses,
                   history, arcs, tunes, steps>>

setPaddingOverride(params) ==
    /\ paddingOverride' = Obj([top |-> params.paddingtop,
                               bottom |-> params.paddingbottom,
                               right |-> params.paddingright,
                               left |-> params.paddingleft])
    /\ call' = [op |-> "setPaddingOverride", params |-> params]
    /\ ret' = Undefined
    /\ threw' = FALSE
    /\ pre' = y
    /\ UNCHANGED <<y, abctune, lastM, ingroup, path, isPrint, spacing, padding,
                   measureNumber, noteNumber, lineNumber, voiceNumber,
                   shouldAddClasses, canvas, history, added, idle, arcs, tunes,
                   steps>>

newTune(abcTune) ==
    /\ tunes < MaxTunes
    /\ tunes' = tunes + 1
    /\ abctune' = Obj(abcTune)
    /\ spacing' = setVerticalSpace(spacing, abcTune.formatting)
    /\ measureNumber' = Null
    /\ noteNumber' = Null
    /\ isPrint' = (abcTune.media = "print")
    /\ LET r == setPadding(padding, paddingOverride, abcTune,
                           abcTune.media = "print")
       IN  /\ padding' = r.padding
           /\ threw' = r.threw
    /\ call' = [op |-> "newTune", over |-> paddingOverride, before |-> spacing]
    /\ ret' = Undefined
    /\ pre' = y
    /\ UNCHANGED <<y, lastM, ingroup, path, paddingOverride, lineNumber,
                   voiceNumber, shouldAddClasses, canvas, history, added, idle,
                   arcs, steps>>

----------------------------------------------------------------------------
(* The padding and spacing of a tune: the overrides a caller may give and  *)
(* the formattings a document may hold                                     *)

Params(ks) ==
    [k \in {"paddingtop", "paddingbottom", "paddingleft", "paddingright"} |->
        IF k \in ks THEN Num(Px(20)) ELSE Undefined]

ParamSets ==
    { {}, {"paddingtop"}, {"paddingbottom"}, {"paddingleft"}, {"paddingright"},
      {"paddingtop", "paddingbottom", "paddingleft", "paddingright"} }

DocKeySets ==
    {{}} \cup {{k} : k \in MarginKeys \cup SpaceKeys}
         \cup {MarginKeys, SpaceKeys, {"topmargin", "staffsep"}}

LayoutTunes ==
    {Tune(Formatting(ks), m) : ks \in DocKeySets, m \in {"screen", "print"}}

NextLayout ==
    \/ reset
    \/ \E ks \in ParamSets : setPaddingOverride(Params(ks))
    \/ \E t \in LayoutTunes : newTune(t)

Spec == Init /\ [][NextLayout]_vars

----------------------------------------------------------------------------
(* calcY and moveY *)

\* spacing.STEP of abc_spacing.js: FONTSIZE*93/720 with FONTSIZE 30, 3.875 px
STEP == (Px(30) * 93) \div 720

\* (a pitch mapping that grows downward with the pitch)
calcY_inverted(ofs) == y + (ofs * STEP) \div 10

\* the y of a pitch, ofs in tenths of a staff step
calcY(ofs) == y - (ofs * STEP) \div 10

callCalcY(ofs) ==
    /\ call' = [op |-> "calcY", ofs |-> ofs]
    /\ ret' = Num(calcY(ofs))
    /\ threw' = FALSE
    /\ pre' = y
    /\ UNCHANGED <<y, abctune, lastM, ingroup, path, isPrint, spacing, padding,
                   paddingOverride, measureNumber, noteNumber, lineNumber,
                   voiceNumber, shouldAddClasses, canvas, history,
                   added, idle, arcs, tunes, steps>>

\* y after this.moveY(em, numLines) from cursor y0
MovedY(y0, em, numLines) ==
    IF numLines = Undefined THEN y0 + em * 1 ELSE y0 + em * Val(numLines)

InPage(v) == -Px(MaxY) <= v /\ v <= Px(MaxY)

moveY(em, numLines) ==
    /\ InPage(MovedY(y, em, numLines))
    /\ y' = MovedY(y, em, numLines)
    /\ call' = [op |-> "moveY", em |-> em, numLines |-> numLines]
    /\ ret' = Undefined
    /\ threw' = FALSE
    /\ pre' = y
    /\ UNCHANGED <<abctune, lastM, ingroup, path, isPrint, spacing, padding,
                   paddingOverride, measureNumber, noteNumber, lineNumber,
                   voiceNumber, shouldAddClasses, canvas, history,
                   added, idle, arcs, tunes, steps>>

Amounts == {Px(-6), 0, Hundredths(756), Px(12)}
Repetitions == {Undefined, Num(0), Num(1), Num(2)}
Pitches == {-20, 0, 12, 15, 60, 100}

NextCursor ==
    \/ reset
    \/ \E em \in Amounts, n \in Repetitions : moveY(em, n)
    \/ \E ofs \in Pitches : callCalcY(ofs)

SpecCursor == Init /\ [][NextCursor]_vars

----------------------------------------------------------------------------
(* Text: getFontAndAttr, getTextSize, renderText and outputTextIf *)

\* a string is the sequence of its characters
Str(chars) == <<"string", chars>>

\* (a test for undefined only, which takes the empty string for a text)
Truthy_definedOnly(v) == v # Undefined /\ v # Null

\* the truth value JavaScript gives v in a condition
Truthy(v) ==
    CASE v[1] = "number" -> Val(v) # 0
      [] v[1] = "string" -> Val(v) # <<>>
      [] v[1] = "object" -> TRUE
      [] OTHER -> FALSE

\* JavaScript's a + n for a number or NaN a
Plus(a, n) == IF IsNum(a) THEN Num(Val(a) + n) ELSE NaN

\* str.split("\n").length
RECURSIVE NumLines(_)
NumLines(chars) ==
    IF chars = <<>> THEN 1
    ELSE (IF Head(chars) = "\n" THEN 1 ELSE 0) + NumLines(Tail(chars))

\* text.replace(/\n\n/g, "\n \n")
RECURSIVE SpaceBlankLines(_)
SpaceBlankLines(chars) ==
    IF Len(chars) < 2 THEN chars
    ELSE IF chars[1] = "\n" /\ chars[2] = "\n"
    THEN <<"\n", " ", "\n">> \o SpaceBlankLines(Tail(Tail(chars)))
    ELSE <<Head(chars)>> \o SpaceBlankLines(Tail(chars))

\* text.replace(/^\n/, "\xA0\n")
PadLeadingNewline(chars) ==
    IF chars # <<>> /\ Head(chars) = "\n" THEN <<"nbsp">> \o chars ELSE chars

\* Math.round(size * 4 / 3) for a whole number of points
RoundPtToPx(size) == (size * 8 + 3) \div 6

\* the font of getFontAndAttr(type, klass), for a font named by a string:
\* the document's, in pixels, or Arial 12pt when the document has none
getFontAndAttr(type) ==
    LET font == Val(abctune).formatting[type]
    IN  IF Truthy(font)
        THEN [size |-> RoundPtToPx(Val(font).size), box |-> Val(font).box]
        ELSE [size |-> RoundPtToPx(12), box |-> FALSE]

\* getTextSize: the canvas's measure of the text, 8 larger each way for a
\* boxed font
getTextSize(measured, type) ==
    IF getFontAndAttr(type).box
    THEN [height |-> Plus(measured.height, Px(8)), width |-> Plus(measured.width, Px(8))]
    ELSE measured

\* the element renderText draws for params {x, y: yText, text, type, anchor}:
\* the text, and for a boxed font the group of the text and its box
TextElement(x, yText, text, type, anchor, measured) ==
    LET box == getFontAndAttr(type).box
        el == [type |-> "text",
               text |-> PadLeadingNewline(SpaceBlankLines(text)),
               x |-> IF box THEN x + Px(2) ELSE x,
               y |-> IF box THEN yText + Px(7) + Px(4) ELSE yText + Px(7),
               anchor |-> anchor]
        size == getTextSize(measured, type)
        rect == [type |-> "rect", x |-> x - Px(2), y |-> yText,
                 width |-> Plus(size.width, -Px(2)),
                 height |-> Plus(size.height, -Px(8))]
    IN  IF box THEN [type |-> "group", children |-> <<el, rect>>] ELSE el

\* controller.recordHistory(el, notSelectable)
Recorded(el, notSelectable) == [el |-> el, notSelectable |-> notSelectable]

\* the cursor after outputTextIf's first move
AfterMarginTop(y0, marginTop) ==
    IF Truthy(marginTop) THEN MovedY(y0, Val(marginTop), Undefined) ELSE y0

\* the cursor after outputTextIf's two moves, from y0: the top margin, and
\* below the text height/numLines times (numLines + marginBottom)
TextAdvance(y0, chars, type, marginTop, marginBottom, measured) ==
    LET y1 == AfterMarginTop(y0, marginTop)
        bb == getTextSize(measured, type)
        height0 == IF IsNum(bb.height) THEN Val(bb.height) ELSE 0
        height == IF getFontAndAttr(type).box THEN height0 + Px(8) ELSE height0
        numLines == NumLines(chars)
    IN  IF marginBottom # Null /\ IsNum(bb.height)
        THEN MovedY(y1, height \div numLines, Num(numLines + Val(marginBottom)))
        ELSE y1

\* what outputTextIf returns for a text: [width, height, el]
TextResult(type, measured, el) ==
    LET bb == getTextSize(measured, type)
        width0 == IF IsNum(bb.width) THEN Val(bb.width) ELSE 0
        height0 == IF IsNum(bb.height) THEN Val(bb.height) ELSE 0
        extra == IF getFontAndAttr(type).box THEN Px(8) ELSE 0
    IN  Obj(<<Num(width0 + extra), Num(height0 + extra), el>>)

\* outputTextIf(x, str, kind, klass, marginTop, marginBottom, alignment);
\* measured is what the canvas measures for str in that font.  With no tune
\* loaded getFontAndAttr reads this.abctune.formatting of null and throws,
\* after the top margin has been applied.
outputTextIf(x, str, kind, marginTop, marginBottom, alignment, measured) ==
    /\ call' = [op |-> "outputTextIf", str |-> str, kind |-> kind,
                marginTop |-> marginTop, marginBottom |-> marginBottom,
                measured |-> measured]
    /\ pre' = y
    /\ IF ~Truthy(str)
       THEN /\ ret' = Obj(<<Num(0), Num(0)>>)
            /\ threw' = FALSE
            /\ UNCHANGED <<y, canvas, history>>
       ELSE IF abctune = Null
       THEN /\ y' = AfterMarginTop(y, marginTop)
            /\ InPage(y')
            /\ ret' = Undefined
            /\ threw' = TRUE
            /\ UNCHANGED <<canvas, history>>
       ELSE LET el == TextElement(x, AfterMarginTop(y, marginTop), Val(str),
                                  kind, alignment, measured)
            IN  /\ Len(canvas) < MaxTexts /\ Len(history) < MaxTexts
                /\ y' = TextAdvance(y, Val(str), kind, marginTop, marginBottom, measured)
                /\ InPage(y')
                /\ canvas' = Append(canvas, el)
                /\ history' = Append(history, Recorded(el, FALSE))
                /\ ret' = TextResult(kind, measured, el)
                /\ threw' = FALSE
    /\ UNCHANGED <<abctune, lastM, ingroup, path, isPrint, spacing, padding,
                   paddingOverride, measureNumber, noteNumber, lineNumber,
                   voiceNumber, shouldAddClasses, added, idle, arcs, tunes,
                   steps>>

Font(size, box) == Obj([size |-> size, box |-> box])
\* tunes that define all four margins and differ in the title font
TextTunes ==
    {Tune([Formatting(MarginKeys) EXCEPT !["titlefont"] = f], "screen") :
        f \in {Undefined, Font(12, FALSE), Font(12, TRUE)}}

Texts == {Undefined, Str(<<>>), Str(<<"A">>), Str(<<"A", "\n", "B", "\n", "C">>)}
Measures ==
    {[width |-> NaN, height |-> NaN],
     [width |-> Num(Px(30)), height |-> Num(Px(12))],
     [width |-> Num(Px(30)), height |-> Num(Px(36))]}
MarginsTop == {Num(0), Num(Px(25))}
MarginsBottom == {Null, Num(0), Num(1)}

NextText ==
    \/ \E t \in TextTunes : newTune(t)
    \/ \E str \in Texts, mt \in MarginsTop, mb \in MarginsBottom, bb \in Measures :
          outputTextIf(Px(15), str, "titlefont", mt, mb, "middle", bb)

SpecText == Init /\ [][NextText]_vars

----------------------------------------------------------------------------
(* Class names: addClasses *)

\* String(n) for a whole number n >= 0
Digit == <<"0", "1", "2", "3", "4", "5", "6", "7", "8", "9">>
RECURSIVE NumberString(_)
NumberString(n) ==
    IF n < 10 THEN <<Digit[n + 1]>>
    ELSE NumberString(n \div 10) \o <<Digit[(n % 10) + 1]>>

\* s.indexOf(sub) >= 0 and s.indexOf(sub) === 0
HasSub(s, sub) ==
    \E i \in 1..(Len(s) - Len(sub) + 1) : SubSeq(s, i, i + Len(sub) - 1) = sub
StartsWith(s, sub) == Len(s) >= Len(sub) /\ SubSeq(s, 1, Len(sub)) = sub

\* s.split(' '): the pieces between the spaces, empty ones included
RECURSIVE Split(_)
Split(s) ==
    IF \A i \in 1..Len(s) : s[i] # " " THEN <<s>>
    ELSE LET i == CHOOSE k \in 1..Len(s) :
                     s[k] = " " /\ \A j \in 1..(k - 1) : s[j] # " "
         IN  <<SubSeq(s, 1, i - 1)>> \o Split(SubSeq(s, i + 1, Len(s)))

\* list.join(' ')
RECURSIVE Join(_)
Join(list) ==
    IF list = <<>> THEN <<>>
    ELSE IF Len(list) = 1 THEN list[1]
    ELSE list[1] \o <<" ">> \o Join(Tail(list))

\* v !== null && v !== undefined
IsSet(v) == v # Null /\ v # Undefined

\* this.addClasses(c), c a string or undefined: the class, then l, m and v
\* with the numbers that are set, then n with the note number for a class
\* that names a note, a rest or a lyric; the words of all of them, each
\* given the prefix abcjs- unless it has it or is empty
addClasses(c) ==
    LET tag(letter, v) ==
            IF IsSet(v) THEN <<<<letter>> \o NumberString(Val(v))>> ELSE <<>>
        named == Truthy(c) /\ (\/ HasSub(Val(c), <<"n", "o", "t", "e">>)
                               \/ HasSub(Val(c), <<"r", "e", "s", "t">>)
                               \/ HasSub(Val(c), <<"l", "y", "r", "i", "c">>))
        all == (IF Truthy(c) THEN <<Val(c)>> ELSE <<>>)
                 \o tag("l", lineNumber) \o tag("m", measureNumber)
                 \o tag("v", voiceNumber)
                 \o (IF named THEN tag("n", noteNumber) ELSE <<>>)
        words == Split(Join(all))
        prefixed == [i \in 1..Len(words) |->
                        IF /\ ~StartsWith(words[i], <<"a", "b", "c", "j", "s", "-">>)
                           /\ Len(words[i]) > 0
                        THEN <<"a", "b", "c", "j", "s", "-">> \o words[i]
                        ELSE words[i]]
    IN  IF ~shouldAddClasses \/ all = <<>> THEN Str(<<>>) ELSE Str(Join(prefixed))

callAddClasses(c) ==
    /\ call' = [op |-> "addClasses", c |-> c]
    /\ ret' = addClasses(c)
    /\ threw' = FALSE
    /\ pre' = y
    /\ UNCHANGED <<y, abctune, lastM, ingroup, path, isPrint, spacing, padding,
                   paddingOverride, measureNumber, noteNumber, lineNumber,
                   voiceNumber, shouldAddClasses, canvas, history, added, idle,
                   arcs, tunes, steps>>

\* the engraver's assignments to the renderer before it draws an element:
\* renderer.lineNumber, measureNumber, voiceNumber and noteNumber
assignNumbers(line, measure, voice, note) ==
    /\ lineNumber' = line
    /\ measureNumber' = measure
    /\ voiceNumber' = voice
    /\ noteNumber' = note
    /\ call' = [op |-> "assignNumbers"]
    /\ ret' = Undefined
    /\ threw' = FALSE
    /\ pre' = y
    /\ UNCHANGED <<y, abctune, lastM, ingroup, path, isPrint, spacing, padding,
                   paddingOverride, shouldAddClasses, canvas, history, added,
                   idle, arcs, tunes, steps>>

----------------------------------------------------------------------------
(* The path accumulator: beginGroup, addPath and endGroup *)

\* a path is a sequence of commands <<"M", x, y>>, <<"l", dx, dy>>, <<"z">>

beginGroup ==
    /\ path' = Obj(<<>>)
    /\ lastM' = Obj(<<0, 0>>)
    /\ ingroup' = TRUE
    /\ added' = <<>>
    /\ idle' = {}
    /\ call' = [op |-> "beginGroup"]
    /\ ret' = Undefined
    /\ threw' = FALSE
    /\ pre' = y
    /\ UNCHANGED <<y, abctune, isPrint, spacing, padding, paddingOverride,
                   measureNumber, noteNumber, lineNumber, voiceNumber,
                   shouldAddClasses, canvas, history, arcs, tunes, steps>>

\* the loop of addPath over the commands after the first: acc = [path, lastM]
RECURSIVE PushRest(_, _)
PushRest(acc, cmds) ==
    IF cmds = <<>> THEN acc
    ELSE LET c == Head(cmds)
             m == IF c[1] = "m"
                  THEN <<acc.lastM[1] + c[2], acc.lastM[2] + c[3]>>
                  ELSE acc.lastM
         IN  PushRest([path |-> Append(acc.path, c), lastM |-> m], Tail(cmds))

\* (an addPath that forgets the moves inside a fragment)
AddedPath_firstMoveOnly(acc, frag) ==
    LET first == <<"m", frag[1][2] - acc.lastM[1], frag[1][3] - acc.lastM[2]>>
    IN  [path |-> acc.path \o <<first>> \o Tail(frag),
         lastM |-> <<acc.lastM[1] + first[2], acc.lastM[2] + first[3]>>]

\* this.path and this.lastM after addPath(frag), for a fragment with commands
AddedPath(acc, frag) ==
    LET first == <<"m", frag[1][2] - acc.lastM[1], frag[1][3] - acc.lastM[2]>>
        m == <<acc.lastM[1] + first[2], acc.lastM[2] + first[3]>>
    IN  PushRest([path |-> Append(acc.path, first), lastM |-> m], Tail(frag))

\* The effect of this.addPath(frag) on lastM, path and threw.  frag is an
\* array of commands, or null or undefined.  Outside a group, with lastM
\* still null, reading this.lastM[0] throws.
AddPathEffect(frag) ==
    IF frag \in {Null, Undefined} \/ Val(frag) = <<>>
    THEN /\ threw' = FALSE
         /\ UNCHANGED <<lastM, path, added, idle>>
    ELSE IF lastM = Null
    THEN /\ threw' = TRUE
         /\ UNCHANGED <<lastM, path, added, idle>>
    ELSE LET r == AddedPath([path |-> Val(path), lastM |-> Val(lastM)], Val(frag))
         IN  /\ Len(added) < MaxFrags
             /\ path' = Obj(r.path)
             /\ lastM' = Obj(r.lastM)
             /\ added' = Append(added, Val(frag))
             /\ idle' = IF ingroup THEN idle ELSE idle \cup {Len(added) + 1}
             /\ threw' = FALSE

addPath(frag) ==
    /\ AddPathEffect(frag)
    /\ call' = [op |-> "addPath", frag |-> frag]
    /\ ret' = Undefined
    /\ pre' = y
    /\ UNCHANGED <<y, abctune, ingroup, isPrint, spacing, padding,
                   paddingOverride, measureNumber, noteNumber, lineNumber,
                   voiceNumber, shouldAddClasses, canvas, history,
                   arcs, tunes, steps>>

\* path += this.path[i].join(" "): the tokens of the commands, in order
RECURSIVE PathString(_)
PathString(cmds) ==
    IF cmds = <<>> THEN <<>>
    ELSE LET c == Head(cmds)
         IN  [i \in 1..Len(c) |-> IF i = 1 THEN <<"op", c[1]>> ELSE <<"n", c[i]>>]
                 \o PathString(Tail(cmds))

\* the element of this.paper.path({path, stroke: "none", fill: "#000000"})
FilledPath(str) ==
    [type |-> "path", path |-> str, stroke |-> "none", fill |-> "#000000"]

\* (an endGroup that leaves the accumulated commands in place)
endGroup_keepsPath ==
    /\ ingroup' = FALSE
    /\ call' = [op |-> "endGroup"]
    /\ pre' = y
    /\ IF path = Null
       THEN /\ threw' = TRUE /\ ret' = Undefined
            /\ UNCHANGED <<path, canvas, history, added, idle>>
       ELSE IF Val(path) = <<>>
       THEN /\ threw' = FALSE /\ ret' = Null
            /\ UNCHANGED <<path, canvas, history, added, idle>>
       ELSE LET el == FilledPath(PathString(Val(path)))
            IN  /\ Len(canvas) < MaxEmit /\ Len(history) < MaxEmit
                /\ canvas' = Append(canvas, el)
                /\ history' = Append(history, Recorded(el, FALSE))
                /\ ret' = Obj(el)
                /\ threw' = FALSE
                /\ UNCHANGED <<path, added, idle>>
    /\ UNCHANGED <<y, abctune, lastM, isPrint, spacing, padding,
                   paddingOverride, measureNumber, noteNumber, lineNumber,
                   voiceNumber, shouldAddClasses, arcs, tunes, steps>>

\* endGroup(klass).  Before any beginGroup this.path is null and reading its
\* length throws, after ingroup has been cleared.
endGroup ==
    /\ ingroup' = FALSE
    /\ call' = [op |-> "endGroup"]
    /\ pre' = y
    /\ IF path = Null
       THEN /\ threw' = TRUE /\ ret' = Undefined
            /\ UNCHANGED <<path, canvas, history, added, idle>>
       ELSE IF Val(path) = <<>>
       THEN /\ threw' = FALSE /\ ret' = Null
            /\ UNCHANGED <<path, canvas, history, added, idle>>
       ELSE LET el == FilledPath(PathString(Val(path)))
            IN  /\ Len(canvas) < MaxEmit /\ Len(history) < MaxEmit
                /\ canvas' = Append(canvas, el)
                /\ history' = Append(history, Recorded(el, FALSE))
                /\ path' = Obj(<<>>)
                /\ added' = <<>>
                /\ idle' = {}
                /\ ret' = Obj(el)
                /\ threw' = FALSE
    /\ UNCHANGED <<y, abctune, lastM, isPrint, spacing, padding,
                   paddingOverride, measureNumber, noteNumber, lineNumber,
                   voiceNumber, shouldAddClasses, arcs, tunes, steps>>

\* fragments at absolute origins, one of them with a move inside
Fragments ==
    { <<<<"M", 10, 20>>, <<"l", 1, 0>>, <<"m", 5, 5>>, <<"l", 0, 3>>, <<"z">>>>,
      <<<<"M", 3, 4>>, <<"l", 0, 5>>, <<"z">>>>,
      <<<<"M", -2, 7>>, <<"m", 1, -1>>, <<"m", 2, 2>>>> }

NextGroup ==
    \/ beginGroup
    \/ \E f \in {Obj(g) : g \in Fragments} \cup {Obj(<<>>), Undefined} : addPath(f)
    \/ endGroup

SpecGroup == Init /\ [][NextGroup]_vars

----------------------------------------------------------------------------
(* The glyph composer: kernSymbols and printSymbol *)

\* The glyph table of abc_glyphs.js: the glyphs it has geometry for, each
\* named by the characters of its id, their widths and their y corrections.
GlyphWidths ==
    [f |-> Px(16), p |-> Px(14), z |-> Px(10), x |-> Px(8), y |-> Px(9)]
HasGlyph(symb) ==
    \/ Len(symb) = 1 /\ symb[1] \in DOMAIN GlyphWidths \cup {"4"}
    \/ symb = <<"x", ".", "y">>
getSymbolWidth(symb) ==
    IF Len(symb) = 1 /\ symb[1] \in DOMAIN GlyphWidths THEN GlyphWidths[symb[1]]
    ELSE IF HasGlyph(symb) THEN Px(12)
    ELSE 0
\* in tenths of a staff step: -2 steps for a digit
getYCorr(symb) == IF symb = <<"4">> THEN -20 ELSE 0
\* glyphs.getPathForSymbol(x, y, symb): the glyph's outline moved to (x, y),
\* or null
getPathForSymbol(x, yy, symb) ==
    IF HasGlyph(symb)
    THEN Obj(<<<<"M", x, yy>>, <<"l", getSymbolWidth(symb), 0>>, <<"z">>>>)
    ELSE Null
\* the element glyphs.printSymbol(x, y, symb, paper, klass) draws
GlyphElement(x, yy, symb) == [type |-> "path", glyph |-> symb, x |-> x, y |-> yy]

\* (a kerning without the narrowed pairs)
kernSymbols_fullWidth(lastSymbol, thisSymbol, lastSymbolWidth) == lastSymbolWidth

kernSymbols(lastSymbol, thisSymbol, lastSymbolWidth) ==
    LET w1 == IF lastSymbol = "f" /\ thisSymbol = "f"
              THEN (lastSymbolWidth * 2) \div 3 ELSE lastSymbolWidth
        w2 == IF lastSymbol = "p" /\ thisSymbol = "p" THEN (w1 * 5) \div 6 ELSE w1
    IN  IF lastSymbol = "f" /\ thisSymbol = "z" THEN (w2 * 5) \div 8 ELSE w2

\* the text renderText draws for a glyph the table does not have
DebugText(x, symbol) ==
    TextElement(x, y, <<"no symbol:">> \o symbol, "debugfont", "start",
                [width |-> NaN, height |-> NaN])

\* The loop of printSymbol over the characters of a multi-character symbol,
\* from character i with horizontal advance dx: st = [children, history,
\* threw] holds the elements drawn into the open group, the records made and
\* whether renderText threw for want of a tune.
RECURSIVE SymbolLoop(_, _, _, _, _, _)
SymbolLoop(st, x, offset, symbol, i, dx) ==
    IF i > Len(symbol) \/ st.threw THEN st
    ELSE LET s == <<symbol[i]>>
             el == GlyphElement(x + dx, calcY(offset + getYCorr(s)), s)
         IN  IF HasGlyph(s)
             THEN SymbolLoop([st EXCEPT !.children = Append(@, el)],
                             x, offset, symbol, i + 1,
                             IF i < Len(symbol)
                             THEN dx + kernSymbols(symbol[i], symbol[i + 1],
                                                   getSymbolWidth(s))
                             ELSE dx)
             ELSE IF abctune = Null
             THEN [st EXCEPT !.threw = TRUE]
             ELSE SymbolLoop([st EXCEPT
                                !.children = Append(@, DebugText(x, symbol)),
                                !.history = Append(@, Recorded(DebugText(x, symbol), FALSE))],
                             x, offset, symbol, i + 1, dx)

HasDot(symbol) == \E i \in 1..Len(symbol) : symbol[i] = "."

\* printSymbol(x, offset, symbol, scalex, scaley, klass), symbol a string or
\* undefined
printSymbol(x, offset, symbol) ==
    /\ call' = [op |-> "printSymbol", x |-> x, offset |-> offset, symbol |-> symbol]
    /\ pre' = y
    /\ UNCHANGED <<y, abctune, ingroup, isPrint, spacing, padding,
                   paddingOverride, measureNumber, noteNumber, lineNumber,
                   voiceNumber, shouldAddClasses, arcs, tunes, steps>>
    /\ IF ~Truthy(symbol)
       THEN /\ ret' = Null /\ threw' = FALSE
            /\ UNCHANGED <<canvas, history, lastM, path, added, idle>>
       ELSE IF Len(Val(symbol)) > 1 /\ ~HasDot(Val(symbol))
       THEN LET r == SymbolLoop([children |-> <<>>, history |-> <<>>, threw |-> FALSE],
                                x, offset, Val(symbol), 1, 0)
                g == [type |-> "group", children |-> r.children]
            IN  /\ Len(canvas) < MaxEmit /\ Len(history) < MaxEmit
                /\ canvas' = Append(canvas, g)
                /\ history' = IF r.threw THEN history \o r.history
                              ELSE Append(history \o r.history, Recorded(g, FALSE))
                /\ ret' = IF r.threw THEN Undefined ELSE Obj(g)
                /\ threw' = r.threw
                /\ UNCHANGED <<lastM, path, added, idle>>
       ELSE IF ingroup
       THEN /\ AddPathEffect(getPathForSymbol(x, calcY(offset + getYCorr(Val(symbol))),
                                              Val(symbol)))
            /\ ret' = IF threw' THEN Undefined ELSE Null
            /\ UNCHANGED <<canvas, history>>
       ELSE IF HasGlyph(Val(symbol))
       THEN LET el == GlyphElement(x, calcY(offset + getYCorr(Val(symbol))), Val(symbol))
            IN  /\ Len(canvas) < MaxEmit /\ Len(history) < MaxEmit
                /\ canvas' = Append(canvas, el)
                /\ history' = Append(history, Recorded(el, FALSE))
                /\ ret' = Obj(el) /\ threw' = FALSE
                /\ UNCHANGED <<lastM, path, added, idle>>
       ELSE /\ Len(canvas) < MaxEmit /\ Len(history) < MaxEmit
            /\ IF abctune = Null
               THEN /\ history' = Append(history, Recorded(Null, FALSE))
                    /\ ret' = Undefined /\ threw' = TRUE
                    /\ UNCHANGED canvas
               ELSE /\ canvas' = Append(canvas, DebugText(x, Val(symbol)))
                    /\ history' = history \o <<Recorded(Null, FALSE),
                                               Recorded(DebugText(x, Val(symbol)), FALSE)>>
                    /\ ret' = Null /\ threw' = FALSE
            /\ UNCHANGED <<lastM, path, added, idle>>

Symbols ==
    {Undefined, Str(<<>>)} \cup
    {Str(c) : c \in { <<"f", "f">>, <<"p", "p">>, <<"f", "z">>, <<"x", "y">>,
                      <<"f", "f", "z">>, <<"p", "4">>, <<"f", "q">>,
                      <<"f">>, <<"q">>, <<"x", ".", "y">> }}

NextSymbol ==
    \/ newTune(Tune(Formatting(MarginKeys), "screen"))
    \/ beginGroup
    \/ \E symbol \in Symbols : printSymbol(Px(100), 60, symbol)

SpecSymbol == Init /\ [][NextSymbol]_vars

----------------------------------------------------------------------------
(* Ties and slurs: drawArc *)

Abs(n) == IF n < 0 THEN -n ELSE n
Min(a, b) == IF a < b THEN a ELSE b
Max(a, b) == IF a > b THEN a ELSE b

RECURSIVE Gcd(_, _)
Gcd(a, b) == IF b = 0 THEN a ELSE Gcd(b, a % b)

\* the integer part of Math.sqrt(n)
RECURSIVE ISqrt(_)
ISqrt(n) ==
    IF n < 2 THEN n
    ELSE LET s == 2 * ISqrt(n \div 4)
         IN  IF (s + 1) * (s + 1) <= n THEN s + 1 ELSE s

\* Math.sqrt(dx*dx+dy*dy), taken on the chord divided by the common measure
\* of its sides: exact for the level, the upright and the 3:4:5 chords, which
\* are the chords of this model
Hypot(dx, dy) ==
    LET g == Gcd(Abs(dx), Abs(dy))
    IN  IF g = 0 THEN 0
        ELSE g * ISqrt((dx \div g) * (dx \div g) + (dy \div g) * (dy \div g))

\* a * (b / norm), the quotient b/norm reduced before the product is taken
Scaled(a, b, norm) ==
    LET g == Gcd(Abs(b), norm)
        h == Gcd(Abs(a), norm \div g)
    IN  ((a \div h) * (b \div g)) \div ((norm \div g) \div h)

\* (a bow as deep as the chord is long, without the clamp)
ArcCurve_unclamped(flatten, maxFlatten, above) ==
    (IF above THEN -1 ELSE 1) * flatten

\* (a bow that ignores the side asked for)
ArcCurve_below(flatten, maxFlatten, above) ==
    Min(maxFlatten, Max(Px(4), flatten))

\* ((above)?-1:1)*Math.min(maxFlatten, Math.max(4, flatten))
ArcCurve(flatten, maxFlatten, above) ==
    (IF above THEN -1 ELSE 1) * Min(maxFlatten, Max(Px(4), flatten))

\* The local variables of drawArc(x1, x2, pitch1, pitch2, above, klass, isTie)
\* at its end.  With both endpoints at one point norm is 0, the unit vector
\* is 0/0 and every control coordinate is NaN.
ArcLocals(a) ==
    LET arcSpacing == IF a.isTie THEN 12 ELSE 15
        x1 == a.x1 + Px(6)
        x2 == a.x2 + Px(4)
        pitch1 == a.pitch1 + (IF a.above THEN arcSpacing ELSE -arcSpacing)
        pitch2 == a.pitch2 + (IF a.above THEN arcSpacing ELSE -arcSpacing)
        y1 == calcY(pitch1)
        y2 == calcY(pitch2)
        dx == x2 - x1
        dy == y2 - y1
        norm == Hypot(dx, dy)
        flatten == (norm * 2) \div 7
        maxFlatten == IF a.isTie THEN Px(10) ELSE Px(25)
        curve == ArcCurve(flatten, maxFlatten, a.above)
        thickness == Px(2)
        Ux(v) == Scaled(v, dx, norm)
        Uy(v) == Scaled(v, dy, norm)
        controlx1 == x1 + Ux(flatten) - Uy(curve)
        controly1 == y1 + Uy(flatten) + Ux(curve)
        controlx2 == x2 - Ux(flatten) - Uy(curve)
        controly2 == y2 - Uy(flatten) + Ux(curve)
        D(v) == IF norm = 0 THEN NaN ELSE Num(v)
    IN  [x1 |-> x1, x2 |-> x2, pitch1 |-> pitch1, pitch2 |-> pitch2,
         y1 |-> y1, y2 |-> y2, norm |-> norm, flatten |-> flatten,
         maxFlatten |-> maxFlatten, curve |-> curve,
         controlx1 |-> D(controlx1), controly1 |-> D(controly1),
         controlx2 |-> D(controlx2), controly2 |-> D(controly2),
         innerx2 |-> D(controlx2 - Uy(thickness)),
         innery2 |-> D(controly2 + Ux(thickness)),
         innerx1 |-> D(controlx1 - Uy(thickness)),
         innery1 |-> D(controly1 + Ux(thickness))]

\* sprintf's %f: the number in pixels to six decimals, held in millionths
Fixed6(v) ==
    IF IsNum(v) THEN <<"n", (Val(v) * 5000 + 3) \div 6>> ELSE <<"NaN">>

\* sprintf("M %f %f C %f %f %f %f %f %f C %f %f %f %f %f %f z", ...)
ArcPathString(l) ==
    <<<<"op", "M">>, Fixed6(Num(l.x1)), Fixed6(Num(l.y1)),
      <<"op", "C">>, Fixed6(l.controlx1), Fixed6(l.controly1),
                     Fixed6(l.controlx2), Fixed6(l.controly2),
                     Fixed6(Num(l.x2)), Fixed6(Num(l.y2)),
      <<"op", "C">>, Fixed6(l.innerx2), Fixed6(l.innery2),
                     Fixed6(l.innerx1), Fixed6(l.innery1),
                     Fixed6(Num(l.x1)), Fixed6(Num(l.y1)),
      <<"op", "z">>>>

\* the class of an arc: klass with the word slur after it, or slur alone
SlurClass(klass) ==
    IF Truthy(klass) THEN Str(Val(klass) \o <<" ", "s", "l", "u", "r">>) ELSE Str(<<"s", "l", "u", "r">>)

\* (a drawArc that moves the cursor below the arc it drew)
drawArc_advancing(a) ==
    LET l == ArcLocals(a)
        el == [type |-> "path", path |-> ArcPathString(l), stroke |-> "none",
               fill |-> "#000000", class |-> addClasses(SlurClass(a.klass))]
    IN  /\ Len(arcs) < MaxArcs
        /\ canvas' = Append(canvas, el)
        /\ history' = Append(history, Recorded(el, FALSE))
        /\ arcs' = Append(arcs, [args |-> a, at |-> y, locals |-> l, el |-> el])
        /\ y' = y + Abs(l.curve)
        /\ call' = [op |-> "drawArc", args |-> a]
        /\ ret' = Obj(el)
        /\ threw' = FALSE
        /\ pre' = y
        /\ UNCHANGED <<abctune, lastM, ingroup, path, isPrint, spacing,
                       padding, paddingOverride, measureNumber, noteNumber,
                       lineNumber, voiceNumber, shouldAddClasses,
                       added, idle, tunes, steps>>

\* drawArc(x1, x2, pitch1, pitch2, above, klass, isTie), a = [x1, x2, pitch1,
\* pitch2, above, klass, isTie]
drawArc(a) ==
    LET l == ArcLocals(a)
        el == [type |-> "path", path |-> ArcPathString(l), stroke |-> "none",
               fill |-> "#000000", class |-> addClasses(SlurClass(a.klass))]
    IN  /\ Len(arcs) < MaxArcs
        /\ canvas' = Append(canvas, el)
        /\ history' = Append(history, Recorded(el, FALSE))
        /\ arcs' = Append(arcs, [args |-> a, at |-> y, locals |-> l, el |-> el])
        /\ call' = [op |-> "drawArc", args |-> a]
        /\ ret' = Obj(el)
        /\ threw' = FALSE
        /\ pre' = y
        /\ UNCHANGED <<y, abctune, lastM, ingroup, path, isPrint, spacing,
                       padding, paddingOverride, measureNumber, noteNumber,
                       lineNumber, voiceNumber, shouldAddClasses,
                       added, idle, tunes, steps>>

\* The chords of the model, from a first note at x 50 and pitch 6: [over,
\* rise] is the run between the shifted endpoints and the rise in tenths of
\* a step.  Level chords of 7, 28, 70 and 140 px, one of no length and one
\* running backward; a 4:3 chord rising 7 steps and a 3:4 chord falling 14.
Chords ==
    { [over |-> Px(7), rise |-> 0], [over |-> Px(28), rise |-> 0],
      [over |-> Px(70), rise |-> 0], [over |-> Px(140), rise |-> 0],
      [over |-> 0, rise |-> 0], [over |-> -Px(28), rise |-> 0],
      [over |-> 43400, rise |-> 70], [over |-> 48825, rise |-> -140] }

ArcArgs ==
    { [x1 |-> Px(50), x2 |-> Px(50) + c.over + Px(2), pitch1 |-> 60,
       pitch2 |-> 60 + c.rise, above |-> ab, klass |-> Undefined,
       isTie |-> tie] :
         c \in Chords, ab \in BOOLEAN, tie \in BOOLEAN }

NextArc ==
    \/ moveY(Px(45), Undefined)
    \/ \E a \in ArcArgs : drawArc(a)

SpecArc == Init /\ [][NextArc]_vars

----------------------------------------------------------------------------
(* The render pass: the margins, the text above the score and the          *)
(* separators                                                             *)

\* the fonts a pass asks the document for, besides the title font
PassFontKeys ==
    {"headerfont", "footerfont", "subtitlefont", "infofont", "composerfont",
     "partsfont", "textfont", "wordsfont", "historyfont"}

MetaKeys ==
    {"header", "title", "rhythm", "origin", "composer", "author", "partOrder",
     "unalignedWords", "book", "source", "discography", "notes",
     "transcription", "history", "abc-copyright", "abc-creator",
     "abc-edited-by", "footer"}

\* a document: formatting, media, metaText and lines
Doc(formatting, media, metaText, lines) ==
    [formatting |-> formatting, media |-> media, metaText |-> metaText,
     lines |-> lines]

\* The renderer state the text of a pass threads through: the cursor, the
\* canvas, the history, and what the last outputTextIf returned.
PassState == [y |-> y, canvas |-> canvas, history |-> history, res |-> Undefined]

\* this.moveY(em)
Moved(st, em) == [st EXCEPT !.y = MovedY(@, em, Undefined)]

\* outputTextIf from state st, for a loaded tune
OutText(st, x, str, kind, marginTop, marginBottom, alignment, measured) ==
    IF ~Truthy(str) THEN [st EXCEPT !.res = Obj(<<Num(0), Num(0)>>)]
    ELSE LET el == TextElement(x, AfterMarginTop(st.y, marginTop), Val(str),
                               kind, alignment, measured)
         IN  [y |-> TextAdvance(st.y, Val(str), kind, marginTop, marginBottom,
                                measured),
              canvas |-> Append(st.canvas, el),
              history |-> Append(st.history, Recorded(el, FALSE)),
              res |-> TextResult(kind, measured, el)]

\* space[1] of what outputTextIf returned
HeightOf(res) == Val(Val(res)[2])

\* the header block of engraveTopText: up by the header's height, the three
\* header texts, and down again
HeaderBlock(st, width, header, measured) ==
    LET headerTextHeight == Val(getTextSize(measured, "headerfont").height)
        left == Val(padding.left)
        s1 == [st EXCEPT !.y = @ - headerTextHeight]
        s2 == OutText(s1, left, header.left, "headerfont", Num(0), Null,
                      "start", measured)
        s3 == OutText(s2, left + width \div 2, header.center, "headerfont",
                      Num(0), Null, "middle", measured)
        s4 == OutText(s3, left + width, header.right, "headerfont", Num(0),
                      Null, "end", measured)
    IN  [s4 EXCEPT !.y = @ + headerTextHeight]

\* the rhythm, composer and origin block of engraveTopText
ComposerBlock(st, width, meta, measured) ==
    LET left == Val(padding.left)
        s1 == Moved(st, spacing.composer)
        rSpace == IF Truthy(meta.rhythm)
                  THEN OutText(s1, left, meta.rhythm, "infofont", Num(0), Null,
                               "start", measured)
                  ELSE s1
        composerLine ==
            (IF Truthy(meta.composer) THEN Val(meta.composer) ELSE <<>>)
            \o (IF Truthy(meta.origin)
                THEN <<" (">> \o Val(meta.origin) \o <<")">> ELSE <<>>)
        space == OutText(rSpace, left + width, Str(composerLine),
                         "composerfont", Num(0), Null, "end", measured)
        s2 == IF composerLine # <<>> THEN Moved(space, HeightOf(space.res))
              ELSE Moved(rSpace, HeightOf(rSpace.res))
    IN  Moved(s2, -Px(6))

\* The steps of engraveTopText, each from the state st the step before left:
\* the header of a print, the top space of a print, the title, the subtitle
\* of the first line, the composer block, the author and the part order.
TopHeader(st, width, doc, measured) ==
    IF Truthy(doc.metaText.header) /\ isPrint
    THEN HeaderBlock(st, width, Val(doc.metaText.header), measured)
    ELSE st

TopSpace(st) == IF isPrint THEN Moved(st, spacing.top) ELSE st

TopTitle(st, width, doc, measured) ==
    IF Truthy(doc.metaText.title)
    THEN OutText(st, Val(padding.left) + width \div 2, doc.metaText.title,
                 "titlefont", Num(spacing.title), Num(0), "middle", measured)
    ELSE st

TopSubtitle(st, width, doc, measured) ==
    IF doc.lines # <<>> /\ Truthy(doc.lines[1].subtitle)
    THEN OutText(st, Val(padding.left) + width \div 2, doc.lines[1].subtitle,
                 "subtitlefont", Num(spacing.subtitle), Num(0), "middle",
                 measured)
    ELSE st

TopComposer(st, width, doc, measured) ==
    IF \/ Truthy(doc.metaText.rhythm)
       \/ Truthy(doc.metaText.origin)
       \/ Truthy(doc.metaText.composer)
    THEN ComposerBlock(st, width, doc.metaText, measured)
    ELSE st

TopAuthor(st, width, doc, measured) ==
    IF Truthy(doc.metaText.author)
    THEN OutText(st, Val(padding.left) + width, doc.metaText.author,
                 "composerfont", Num(0), Num(0), "end", measured)
    ELSE st

TopPartOrder(st, doc, measured) ==
    IF Truthy(doc.metaText.partOrder)
    THEN OutText(st, Val(padding.left), doc.metaText.partOrder, "partsfont",
                 Num(0), Num(0), "start", measured)
    ELSE st

\* the renderer after engraveTopText(width, abctune), every text measured as
\* measured
TopText(width, doc, measured) ==
    TopPartOrder(
      TopAuthor(
        TopComposer(
          TopSubtitle(
            TopTitle(TopSpace(TopHeader(PassState, width, doc, measured)),
                     width, doc, measured),
            width, doc, measured),
          width, doc, measured),
        width, doc, measured),
      doc, measured)

\* what an operation of the pass leaves alone, besides the cursor, the
\* canvas and the history
PassFrame ==
    UNCHANGED <<abctune, lastM, ingroup, path, isPrint, spacing, padding,
                paddingOverride, added, idle, arcs, tunes>>

\* the end of an operation of the pass in state st
PassEnds(st, op) ==
    /\ InPage(st.y)
    /\ steps < MaxSteps
    /\ steps' = steps + 1
    /\ y' = st.y
    /\ canvas' = st.canvas
    /\ history' = st.history
    /\ call' = op
    /\ ret' = Undefined
    /\ threw' = FALSE
    /\ pre' = y
    /\ PassFrame

\* engraveTopText(width, abctune), for the tune that was loaded
engraveTopText(width, measured) ==
    /\ abctune # Null /\ IsNum(padding.left)
    /\ PassEnds(TopText(width, Val(abctune), measured),
                [op |-> "engraveTopText", measured |-> measured])
    /\ UNCHANGED <<measureNumber, noteNumber, lineNumber, voiceNumber,
                   shouldAddClasses>>

\* topMargin(abctune): this.moveY(this.padding.top)
topMargin ==
    /\ IsNum(padding.top)
    /\ PassEnds(Moved(PassState, Val(padding.top)), [op |-> "topMargin"])
    /\ UNCHANGED <<measureNumber, noteNumber, lineNumber, voiceNumber,
                   shouldAddClasses>>

\* addMusicPadding(): this.moveY(this.spacing.music)
addMusicPadding ==
    /\ PassEnds(Moved(PassState, spacing.music), [op |-> "addMusicPadding"])
    /\ UNCHANGED <<measureNumber, noteNumber, lineNumber, voiceNumber,
                   shouldAddClasses>>

\* (a padding measured from the first staff of the group above)
addStaffPadding_firstStaff(lastStaffGroup, thisStaffGroup) ==
    LET lastStaff == lastStaffGroup.staffs[1]
        lastBottomLine == -(lastStaff.bottom - 2)
        nextTopLine == thisStaffGroup.staffs[1].top - 10
        naturalSeparation == nextTopLine + lastBottomLine
        separationInPixels == naturalSeparation * STEP
    IN  /\ PassEnds(IF separationInPixels < spacing.staffSeparation
                    THEN Moved(PassState, spacing.staffSeparation - separationInPixels)
                    ELSE PassState,
                    [op |-> "addStaffPadding", last |-> lastStaffGroup,
                     next |-> thisStaffGroup])
        /\ UNCHANGED <<measureNumber, noteNumber, lineNumber, voiceNumber,
                       shouldAddClasses>>

\* addStaffPadding(lastStaffGroup, thisStaffGroup): the groups are their
\* arrays of staffs, each with the pitches of its top and bottom
addStaffPadding(lastStaffGroup, thisStaffGroup) ==
    LET lastStaff == lastStaffGroup.staffs[Len(lastStaffGroup.staffs)]
        lastBottomLine == -(lastStaff.bottom - 2)
        nextTopLine == thisStaffGroup.staffs[1].top - 10
        naturalSeparation == nextTopLine + lastBottomLine
        separationInPixels == naturalSeparation * STEP
    IN  /\ PassEnds(IF separationInPixels < spacing.staffSeparation
                    THEN Moved(PassState, spacing.staffSeparation - separationInPixels)
                    ELSE PassState,
                    [op |-> "addStaffPadding", last |-> lastStaffGroup,
                     next |-> thisStaffGroup])
        /\ UNCHANGED <<measureNumber, noteNumber, lineNumber, voiceNumber,
                       shouldAddClasses>>

\* outputSubtitle(width, subtitle)
outputSubtitle(width, subtitle, measured) ==
    /\ abctune # Null /\ IsNum(padding.left)
    /\ PassEnds(OutText(PassState, Val(padding.left) + width \div 2, subtitle,
                        "subtitlefont", Num(spacing.subtitle), Num(0),
                        "middle", measured),
                [op |-> "outputSubtitle", measured |-> measured])
    /\ UNCHANGED <<measureNumber, noteNumber, lineNumber, voiceNumber,
                   shouldAddClasses>>

\* Math.round of a length, to whole pixels
RoundPx(v) == ((v + Px(1) \div 2) \div Px(1)) * Px(1)

\* the element of printSeparator(width) with the cursor at y0; staffWidth is
\* this.controller.width
SeparatorElement(y0, width, staffWidth) ==
    LET yy == RoundPx(y0)
        x1 == (staffWidth - width) \div 2
        x2 == x1 + width
    IN  [type |-> "path",
         path |-> << <<"op", "M">>, <<"n", x1>>, <<"n", yy>>,
                     <<"op", "L">>, <<"n", x2>>, <<"n", yy>>,
                     <<"op", "L">>, <<"n", x2>>, <<"n", yy + Px(1)>>,
                     <<"op", "L">>, <<"n", x1>>, <<"n", yy + Px(1)>>,
                     <<"op", "L">>, <<"n", x1>>, <<"n", yy>>, <<"op", "z">> >>,
         stroke |-> "rgba(0,0,0,0)", fill |-> "rgba(0,0,0,255)",
         class |-> addClasses(Str(<<"d", "e", "f", "i", "n", "e", "d", "-", "t", "e", "x", "t">>))]

\* outputSeparator(separator): nothing without a line length; else the space
\* above, the line, which is not recorded in the history, and the space below
outputSeparator(separator, staffWidth) ==
    LET s1 == Moved(PassState, separator.spaceAbove)
        s2 == [s1 EXCEPT !.canvas =
                  Append(@, SeparatorElement(s1.y, Val(separator.lineLength),
                                             staffWidth))]
    IN  /\ PassEnds(IF Truthy(separator.lineLength)
                    THEN Moved(s2, separator.spaceBelow) ELSE PassState,
                    [op |-> "outputSeparator", separator |-> separator])
        /\ UNCHANGED <<measureNumber, noteNumber, lineNumber, voiceNumber,
                       shouldAddClasses>>

\* the str outputFreeText builds from an array of [font, text, center]
RECURSIVE FreeTextStr(_)
FreeTextStr(parts) ==
    IF parts = <<>> THEN <<>>
    ELSE (IF Truthy(Head(parts).font)
          THEN <<"FONT(">> \o Val(Head(parts).font) \o <<")">> ELSE <<>>)
         \o Head(parts).text \o FreeTextStr(Tail(parts))

\* outputFreeText(text, vskip): text the empty string, a string, or an array
outputFreeText(text, vskip, measured, staffWidth) ==
    LET size == Px(getFontAndAttr("textfont").size)
        s1 == IF Truthy(vskip) THEN Moved(PassState, Val(vskip)) ELSE PassState
        isCentered == \E i \in 1..Len(Val(text)) : Val(text)[i].center
    IN  /\ abctune # Null /\ IsNum(padding.left)
        /\ PassEnds(IF text = Str(<<>>) THEN Moved(s1, size * 2)
                    ELSE IF text[1] = "string"
                    THEN OutText(Moved(s1, size \div 2), Val(padding.left), text,
                                 "textfont", Num(0), Num(0), "start", measured)
                    ELSE OutText(s1,
                                 IF isCentered THEN staffWidth \div 2
                                 ELSE Val(padding.left),
                                 Str(FreeTextStr(Val(text))), "textfont",
                                 Num(0), Num(1),
                                 IF isCentered THEN "middle" ELSE "start",
                                 measured),
                    [op |-> "outputFreeText", text |-> text, vskip |-> vskip,
                     measured |-> measured])
        /\ UNCHANGED <<measureNumber, noteNumber, lineNumber, voiceNumber,
                       shouldAddClasses>>

\* spacing.INDENT of abc_spacing.js
INDENT == Px(50)

\* controller.combineHistory(len, target): the last len records give way to
\* one record of the group that holds their elements
combineHistory(records, len, target) ==
    Append(SubSeq(records, 1, Len(records) - len), Recorded(target, FALSE))

\* the loop of engraveExtraText over metaText.unalignedWords, each the empty
\* string or a string
RECURSIVE WordsLoop(_, _, _)
WordsLoop(st, words, measured) ==
    IF words = <<>> THEN st
    ELSE WordsLoop(IF Head(words) = Str(<<>>)
                   THEN Moved(st, Px(getFontAndAttr("wordsfont").size))
                   ELSE OutText(st, Val(padding.left) + INDENT, Head(words),
                                "wordsfont", Num(0), Num(0), "start", measured),
                   Tail(words), measured)

\* the unaligned words of engraveExtraText: the texts drawn into one group,
\* their records combined into the group's
WordsBlock(st, words, measured) ==
    LET s1 == Moved(st, spacing.words)
        s2 == WordsLoop([s1 EXCEPT !.canvas = <<>>], words, measured)
        s3 == [s2 EXCEPT !.y = MovedY(@, Px(getFontAndAttr("wordsfont").size), Num(2))]
        g == [type |-> "group", children |-> s2.canvas]
    IN  [s3 EXCEPT !.canvas = Append(st.canvas, g),
                   !.history = combineHistory(@, Len(@) - Len(st.history), g)]

\* the labelled lines of engraveExtraText, in the order they are added
ExtraLabels ==
    << <<"book", "Book: ">>, <<"source", "Source: ">>,
       <<"discography", "Discography: ">>, <<"notes", "Notes: ">>,
       <<"transcription", "Transcription: ">>, <<"history", "History: ">>,
       <<"abc-copyright", "Copyright: ">>, <<"abc-creator", "Creator: ">>,
       <<"abc-edited-by", "Edited By: ">> >>

RECURSIVE ExtraText(_, _)
ExtraText(meta, labels) ==
    IF labels = <<>> THEN <<>>
    ELSE (IF Truthy(meta[Head(labels)[1]])
          THEN <<Head(labels)[2]>> \o Val(meta[Head(labels)[1]]) \o <<"\n">>
          ELSE <<>>)
         \o ExtraText(meta, Tail(labels))

\* the footer of engraveExtraText: three texts that leave the cursor alone
FooterBlock(st, width, footer, measured) ==
    LET left == Val(padding.left)
        s1 == OutText(st, left, footer.left, "footerfont", Num(0), Null,
                      "start", measured)
        s2 == OutText(s1, left + width \div 2, footer.center, "footerfont",
                      Num(0), Null, "middle", measured)
    IN  OutText(s2, left + width, footer.right, "footerfont", Num(0), Null,
                "end", measured)

\* The steps of engraveExtraText: the unaligned words, the labelled lines
\* and the footer of a print.
BottomWords(st, doc, measured) ==
    IF Truthy(doc.metaText.unalignedWords) /\ Val(doc.metaText.unalignedWords) # <<>>
    THEN WordsBlock(st, Val(doc.metaText.unalignedWords), measured)
    ELSE st

BottomExtra(st, extraText, measured) ==
    IF extraText # <<>>
    THEN OutText(st, Val(padding.left), Str(extraText), "historyfont",
                 Num(spacing.info), Num(0), "start", measured)
    ELSE st

BottomFooter(st, width, doc, measured) ==
    IF Truthy(doc.metaText.footer) /\ isPrint
    THEN FooterBlock(st, width, Val(doc.metaText.footer), measured)
    ELSE st

\* the renderer after engraveExtraText(width, abctune)
BottomText(width, doc, measured) ==
    BottomFooter(
      BottomExtra(BottomWords(PassState, doc, measured),
                  ExtraText(doc.metaText, ExtraLabels), measured),
      width, doc, measured)

\* engraveExtraText(width, abctune), for the tune that was loaded
engraveExtraText(width, measured) ==
    /\ abctune # Null /\ IsNum(padding.left)
    /\ PassEnds(BottomText(width, Val(abctune), measured),
                [op |-> "engraveExtraText", measured |-> measured])
    /\ lineNumber' = Null
    /\ measureNumber' = Null
    /\ noteNumber' = Null
    /\ voiceNumber' = Null
    /\ UNCHANGED shouldAddClasses

\* The documents of the pass: every margin set, the top one to 15 px, no
\* font of their own; print documents carry a header and a footer.  meta
\* names the metaText they hold and spaces the spaces they set, to 0 pt.
PassText(k) ==
    IF k \in {"header", "footer"}
    THEN Obj([left |-> Str(<<"L">>), center |-> Undefined, right |-> Str(<<"R">>)])
    ELSE IF k = "unalignedWords"
    THEN Obj(<<Str(<<"w">>), Str(<<>>)>>)
    ELSE Str(<<k>>)

PassDoc(meta, spaces, media, subtitle) ==
    Doc([k \in PassFontKeys |-> Undefined]
            @@ [k \in FormattingKeys |->
                   IF k = "topmargin" THEN Num(Px(15))
                   ELSE IF k \in spaces THEN Num(0)
                   ELSE Formatting(MarginKeys)[k]],
        media,
        [k \in MetaKeys |-> IF k \in meta THEN PassText(k) ELSE Undefined],
        IF subtitle THEN <<[subtitle |-> Str(<<"S">>)]>> ELSE <<>>)

PassDocs ==
    { PassDoc({"title"}, {}, "screen", FALSE),
      PassDoc({"title", "composer"}, {}, "screen", TRUE),
      PassDoc({"composer", "origin"}, {"composerspace"}, "screen", FALSE),
      PassDoc({"rhythm", "author", "partOrder", "book", "notes"}, {}, "screen", FALSE),
      PassDoc({"title", "unalignedWords"}, {"wordsspace"}, "screen", FALSE),
      PassDoc({"header", "title", "footer", "history"}, {"topspace"}, "print", FALSE) }

\* what the canvas measures for a text
PassMeasures ==
    { [width |-> Num(Px(30)), height |-> Num(h)] : h \in {0, Px(12)} }

\* the group above, of two staffs, and the group below: 4 or 8 steps apart,
\* and 22 apart
StaffGroup(tops, bottoms) ==
    [staffs |-> [i \in 1..Len(tops) |-> [top |-> tops[i], bottom |-> bottoms[i]]]]
LastGroups == {StaffGroup(<<10, 10>>, <<2, b>>) : b \in {-2, 2, -10}}
ThisGroups == {StaffGroup(<<t>>, <<2>>) : t \in {14, 20}}

NextPass ==
    \/ \E doc \in PassDocs : newTune(doc)
    \/ topMargin
    \/ \E m \in PassMeasures : engraveTopText(Px(200), m)
    \/ addMusicPadding
    \/ \E last \in LastGroups, next \in ThisGroups : addStaffPadding(last, next)
    \/ \E m \in PassMeasures : outputSubtitle(Px(200), Str(<<"S">>), m)
    \/ \E text \in
          { Str(<<>>), Str(<<"F">>),
            Obj(<<[font |-> Undefined, text |-> <<"a">>, center |-> FALSE],
                  [font |-> Str(<<"X">>), text |-> <<"b">>, center |-> TRUE]>>) },
          vskip \in {Undefined, Num(Px(3))}, m \in PassMeasures :
          outputFreeText(text, vskip, m, Px(230))
    \/ \E separator \in
          { [lineLength |-> Undefined, spaceAbove |-> Px(5), spaceBelow |-> Px(5)],
            [lineLength |-> Num(Px(100)), spaceAbove |-> Px(5), spaceBelow |-> Px(5)],
            [lineLength |-> Num(Px(100)), spaceAbove |-> 0, spaceBelow |-> 0] } :
          outputSeparator(separator, Px(230))
    \/ \E m \in PassMeasures : engraveExtraText(Px(200), m)

SpecPass == Init /\ [][NextPass]_vars

----------------------------------------------------------------------------
(* The other emitters: printStem, printStave, printPath, renderText,      *)
(* addInvisibleMarker and printSeparator                                  *)

\* what the emitters below leave alone
EmitFrame ==
    UNCHANGED <<y, abctune, ingroup, isPrint, spacing, padding, paddingOverride,
                measureNumber, noteNumber, lineNumber, voiceNumber,
                shouldAddClasses, arcs, tunes, steps>>

\* the pathArray of printStem(x, dx, y1, y2): y1 and y2 change places for a
\* negative width, and a whole x is moved right by 0.05
StemPathArray(x, dx, y1, y2) ==
    LET ya == IF dx < 0 THEN y2 ELSE y1
        yb == IF dx < 0 THEN y1 ELSE y2
        xx == IF x % Px(1) = 0 THEN x + Hundredths(5) ELSE x
    IN  << <<"M", xx, ya>>, <<"L", xx, yb>>, <<"L", xx + dx, yb>>,
           <<"L", xx + dx, ya>>, <<"z">> >>

\* the element of this.paper.pathToBack for a stem
StemElement(x, dx, y1, y2) ==
    [type |-> "path", path |-> PathString(StemPathArray(x, dx, y1, y2)),
     stroke |-> "none", fill |-> "#000000", class |-> addClasses(Str(<<"s", "t", "e", "m">>)), back |-> TRUE]

\* printStem(x, dx, y1, y2): in a group the stem joins the pending path, else
\* it is drawn at the back of the canvas and returned
printStem(x, dx, y1, y2) ==
    /\ call' = [op |-> "printStem", x |-> x, dx |-> dx, y1 |-> y1, y2 |-> y2]
    /\ pre' = y
    /\ IF ingroup
       THEN /\ AddPathEffect(Obj(StemPathArray(x, dx, y1, y2)))
            /\ ret' = Undefined
            /\ UNCHANGED <<canvas, history>>
       ELSE /\ Len(canvas) < MaxEmit
            /\ canvas' = Append(canvas, StemElement(x, dx, y1, y2))
            /\ ret' = Obj(StemElement(x, dx, y1, y2))
            /\ threw' = FALSE
            /\ UNCHANGED <<history, lastM, path, added, idle>>
    /\ EmitFrame

\* the element of printStaveLine(x1, x2, pitch, klass), pitch in staff steps:
\* a bar 0.35 above and below the line, its numbers printed with %f
StaveLineElement(x1, x2, pitch, klass) ==
    LET yy == calcY(pitch * 10)
        dy == Hundredths(35)
    IN  [type |-> "path",
         path |-> << <<"op", "M">>, Fixed6(Num(x1)), Fixed6(Num(yy - dy)),
                     <<"op", "L">>, Fixed6(Num(x2)), Fixed6(Num(yy - dy)),
                     <<"op", "L">>, Fixed6(Num(x2)), Fixed6(Num(yy + dy)),
                     <<"op", "L">>, Fixed6(Num(x1)), Fixed6(Num(yy + dy)),
                     <<"op", "z">> >>,
         stroke |-> "none", fill |-> "#000000", class |-> klass, back |-> TRUE]

\* the lines printStave draws, in order: the B line alone, or numLines lines
\* from the top one down to the E line, the first of them the top line
StaveLines(startx, endx, numLines) ==
    IF numLines = 1
    THEN <<StaveLineElement(startx, endx, 6, Str(<<"a", "b", "c", "j", "s", "-", "t", "o", "p", "-", "l", "i", "n", "e">>))>>
    ELSE [k \in 1..numLines |->
            StaveLineElement(startx, endx, (numLines - k + 1) * 2,
                             IF k = 1 THEN Str(<<"a", "b", "c", "j", "s", "-", "t", "o", "p", "-", "l", "i", "n", "e">>) ELSE Undefined)]

\* printStave(startx, endx, numLines): the lines in a group of their own,
\* prepended to the canvas and recorded as not selectable
printStave(startx, endx, numLines) ==
    LET line == IF IsNum(lineNumber) THEN NumberString(Val(lineNumber))
                ELSE IF lineNumber = Null THEN <<"n", "u", "l", "l">>
                ELSE <<"u", "n", "d", "e", "f", "i", "n", "e", "d">>
        g == [type |-> "group",
              klass |-> Str(<<"a", "b", "c", "j", "s", "-", "s", "t", "a", "f", "f", " ",
                              "a", "b", "c", "j", "s", "-", "l">> \o line),
              prepend |-> TRUE,
              children |-> StaveLines(startx, endx, numLines)]
    IN  /\ Len(canvas) < MaxEmit
        /\ canvas' = Append(canvas, g)
        /\ history' = Append(history, Recorded(g, TRUE))
        /\ call' = [op |-> "printStave", startx |-> startx, endx |-> endx,
                    numLines |-> numLines]
        /\ ret' = Undefined
        /\ threw' = FALSE
        /\ pre' = y
        /\ UNCHANGED <<lastM, path, added, idle>>
        /\ EmitFrame

NotSelectable == Str(<<"n", "o", "t", "-", "s", "e", "l", "e", "c", "t", "a", "b", "l", "e">>)

\* the history after printPath or renderText has dealt with element el under
\* params.history h: recorded when h is falsy, recorded as not selectable
\* when h is 'not-selectable', and left out for any other h
RecordedUnless(h, el) ==
    IF ~Truthy(h) THEN Append(history, Recorded(el, FALSE))
    ELSE IF h = NotSelectable THEN Append(history, Recorded(el, TRUE))
    ELSE history

\* printPath(attrs, params), params undefined or an object with a history
\* field
printPath(attrs, params) ==
    LET el == [type |-> "path", path |-> attrs.path, stroke |-> attrs.stroke,
               fill |-> attrs.fill]
    IN  /\ Len(canvas) < MaxEmit
        /\ canvas' = Append(canvas, el)
        /\ history' = RecordedUnless(IF params = Undefined THEN Undefined
                                     ELSE Val(params).history, el)
        /\ call' = [op |-> "printPath", attrs |-> attrs, params |-> params]
        /\ ret' = Obj(el)
        /\ threw' = FALSE
        /\ pre' = y
        /\ UNCHANGED <<lastM, path, added, idle>>
        /\ EmitFrame

\* renderText(params), params = [x, y, text, type, anchor, history]; measured
\* is what the canvas measures for the text.  With no tune loaded
\* getFontAndAttr reads this.abctune.formatting of null and throws.
renderText(params, measured) ==
    /\ call' = [op |-> "renderText", params |-> params, measured |-> measured]
    /\ pre' = y
    /\ IF abctune = Null
       THEN /\ ret' = Undefined
            /\ threw' = TRUE
            /\ UNCHANGED <<canvas, history>>
       ELSE LET el == TextElement(params.x, params.y, params.text, params.type,
                                  params.anchor, measured)
            IN  /\ Len(canvas) < MaxEmit
                /\ canvas' = Append(canvas, el)
                /\ history' = RecordedUnless(params.history, el)
                /\ ret' = Obj(el)
                /\ threw' = FALSE
    /\ UNCHANGED <<lastM, path, added, idle>>
    /\ EmitFrame

\* the element of addInvisibleMarker(className) with the cursor at y
MarkerElement(className) ==
    [type |-> "path",
     path |-> << <<"op", "M">>, <<"n", 0>>, <<"n", RoundPx(y)>>,
                 <<"op", "L">>, <<"n", 0>>, <<"n", 0>> >>,
     stroke |-> "none", fill |-> "none", opacity |-> 0,
     class |-> addClasses(className),
     vertical |-> RoundPx(y), back |-> TRUE]

addInvisibleMarker(className) ==
    /\ Len(canvas) < MaxEmit
    /\ canvas' = Append(canvas, MarkerElement(className))
    /\ call' = [op |-> "addInvisibleMarker", className |-> className]
    /\ ret' = Undefined
    /\ threw' = FALSE
    /\ pre' = y
    /\ UNCHANGED <<history, lastM, path, added, idle>>
    /\ EmitFrame

\* printSeparator(width); staffWidth is this.controller.width
printSeparator(width, staffWidth) ==
    /\ Len(canvas) < MaxEmit
    /\ canvas' = Append(canvas, SeparatorElement(y, width, staffWidth))
    /\ call' = [op |-> "printSeparator", width |-> width]
    /\ ret' = Undefined
    /\ threw' = FALSE
    /\ pre' = y
    /\ UNCHANGED <<history, lastM, path, added, idle>>
    /\ EmitFrame

NextEmit ==
    \/ newTune(Tune(Formatting(MarginKeys), "screen"))
    \/ moveY(Hundredths(4550), Undefined)
    \/ beginGroup
    \/ endGroup
    \/ \E dx \in {Hundredths(60), -Hundredths(60)} :
          printStem(Px(100), dx, Px(40), Px(12))
    \/ \E numLines \in {1, 5} : printStave(Px(15), Px(215), numLines)
    \/ \E params \in
          {Undefined} \cup
          {Obj([history |-> h]) :
              h \in {Undefined, NotSelectable,
                     Str(<<"i", "g", "n", "o", "r", "e">>)}} :
          printPath([path |-> << <<"op", "M">>, <<"n", 0>>, <<"n", 0>>,
                                 <<"op", "L">>, <<"n", Px(10)>>, <<"n", 0>> >>,
                     stroke |-> "#000000", fill |-> "none"], params)
    \/ \E h \in {Undefined, NotSelectable,
                 Str(<<"i", "g", "n", "o", "r", "e">>)} :
          renderText([x |-> Px(15), y |-> Px(20), text |-> <<"A">>,
                      type |-> "titlefont", anchor |-> "start", history |-> h],
                     [width |-> Num(Px(30)), height |-> Num(Px(12))])
    \/ addInvisibleMarker(Str(<<"a", "b", "c", "j", "s", "-", "t", "o", "p", "-",
                                "o", "f", "-", "s", "y", "s", "t", "e", "m">>))
    \/ printSeparator(Px(100), Px(230))
    \/ printSymbol(Px(100), 60, Str(<<"f">>))
    \/ drawArc([x1 |-> Px(50), x2 |-> Px(80), pitch1 |-> 60, pitch2 |-> 60,
                above |-> TRUE, klass |-> Undefined, isTie |-> FALSE])

SpecEmit == Init /\ [][NextEmit]_vars

----------------------------------------------------------------------------
(* The accumulator between groups: reset, beginGroup, addPath, printStem  *)
(* and endGroup in any order                                              *)

NextAccumulator ==
    \/ reset
    \/ beginGroup
    \/ \E f \in {Obj(g) : g \in Fragments} \cup {Obj(<<>>), Undefined} : addPath(f)
    \/ \E dx \in {Hundredths(60), -Hundredths(60)} :
          printStem(Px(100), dx, Px(40), Px(12))
    \/ endGroup

SpecAccumulator == Init /\ [][NextAccumulator]_vars

----------------------------------------------------------------------------
(* The space between staff systems: addStaffPadding on its own *)

NextStaff ==
    \/ \E ks \in {MarginKeys, MarginKeys \cup {"staffsep"}} :
          newTune(Tune(Formatting(ks), "screen"))
    \/ addMusicPadding
    \/ \E last \in LastGroups, next \in ThisGroups : addStaffPadding(last, next)

SpecStaff == Init /\ [][NextStaff]_vars

----------------------------------------------------------------------------
(* Classes under the engraver's numbers *)

NextClasses ==
    \/ \E line \in {Null, Num(3)}, measure \in {Undefined, Num(0)},
          voice \in {Null, Num(1)}, note \in {Null, Num(12)} :
          assignNumbers(line, measure, voice, note)
    \/ \E c \in
          {Undefined, Str(<<>>),
           Str(<<"n", "o", "t", "e">>),
           Str(<<"a", "b", "c", "j", "s", "-", "r", "e", "s", "t">>),
           Str(<<"s", "t", "e", "m">>),
           Str(<<"s", "y", "m", "b", "o", "l", " ", "c", "l", "e", "f">>),
           Str(<<"l", "y", "r", "i", "c">>),
           Str(<<"s", "l", "u", "r", " ", "s", "l", "u", "r">>)} :
          callAddClasses(c)
    \/ \E klass \in
          {Undefined, Str(<<"a", "b", "c", "j", "s", "-", "h", "i", "n", "t">>),
           Str(<<"s", "l", "u", "r">>)} :
          drawArc([x1 |-> Px(50), x2 |-> Px(80), pitch1 |-> 60, pitch2 |-> 60,
                   above |-> TRUE, klass |-> klass, isTie |-> FALSE])

SpecClasses ==
    (\E addClassesFlag \in BOOLEAN : Renderer(addClassesFlag)) /\ [][NextClasses]_vars

----------------------------------------------------------------------------
(* Scaling: adjustNonScaledItems *)

\* a scale factor is the fraction num/den
Scale(num, den) == [num |-> num, den |-> den]

\* JavaScript's v /= scale: NaN for a v that is no number
Over(v, scale) ==
    IF IsNum(v) THEN Num((Val(v) * scale.den) \div scale.num) ELSE NaN

\* the quotients of the model are whole
Divides(scale, v) == IsNum(v) => (Val(v) * scale.den) % scale.num = 0

\* the font of the document with its size divided by scale
Resized(font, scale) ==
    Obj([Val(font) EXCEPT !.size = (Val(font).size * scale.den) \div scale.num])

\* adjustNonScaledItems(scale): divides the four paddings, then the size of
\* the document's header font, then that of its footer font.  Reading
\* this.abctune.formatting with no tune loaded throws, and so does reading
\* the size of a font the document does not have; what was divided before
\* stays divided.
adjustNonScaledItems(scale) ==
    LET formatting == Val(abctune).formatting
        hasHeader == abctune # Null /\ formatting["headerfont"] # Undefined
        hasFooter == hasHeader /\ formatting["footerfont"] # Undefined
    IN  /\ steps < MaxSteps
        /\ steps' = steps + 1
        /\ \A k \in DOMAIN padding : Divides(scale, padding[k])
        /\ hasHeader => Divides(scale, Num(Val(formatting["headerfont"]).size))
        /\ hasFooter => Divides(scale, Num(Val(formatting["footerfont"]).size))
        /\ padding' = [k \in DOMAIN padding |-> Over(padding[k], scale)]
        /\ abctune' =
              IF ~hasHeader THEN abctune
              ELSE IF ~hasFooter
              THEN Obj([Val(abctune) EXCEPT !.formatting["headerfont"] =
                                               Resized(@, scale)])
              ELSE Obj([Val(abctune) EXCEPT !.formatting["headerfont"] =
                                               Resized(@, scale),
                                            !.formatting["footerfont"] =
                                               Resized(@, scale)])
        /\ threw' = ~hasFooter
        /\ call' = [op |-> "adjustNonScaledItems", scale |-> scale]
        /\ ret' = Undefined
        /\ pre' = y
        /\ UNCHANGED <<y, lastM, ingroup, path, isPrint, spacing,
                       paddingOverride, measureNumber, noteNumber, lineNumber,
                       voiceNumber, shouldAddClasses, canvas,
                       history, added, idle, arcs, tunes>>

\* documents with the fonts in fs among headerfont and footerfont, and with
\* the margins in ms
ScaleDoc(fs, ms) ==
    Tune([k \in {"headerfont", "footerfont"} |->
             IF k \in fs THEN Font(12, FALSE) ELSE Undefined]
             @@ Formatting(ms),
         "screen")

ScaleDocs ==
    { ScaleDoc(fs, ms) : fs \in {{"headerfont", "footerfont"}, {"headerfont"}, {}},
                         ms \in {MarginKeys, {"topmargin"}} }

NextScale ==
    \/ \E ks \in {{}, {"paddingtop", "paddingbottom", "paddingleft", "paddingright"}} :
          setPaddingOverride(Params(ks))
    \/ \E doc \in ScaleDocs : newTune(doc)
    \/ \E scale \in {Scale(1, 1), Scale(2, 1), Scale(1, 2), Scale(3, 2)} :
          adjustNonScaledItems(scale)
    \/ topMargin
    \/ addMusicPadding

SpecScale == Init /\ [][NextScale]_vars

----------------------------------------------------------------------------
(* Padding and spacing resolution *)

MarginOf == [top |-> "topmargin", bottom |-> "botmargin",
             left |-> "leftmargin", right |-> "rightmargin"]
PrintDefault == [top |-> Px(38), bottom |-> Px(38), left |-> Px(68), right |-> Px(68)]
SpacingEntry ==
    [staffsep |-> "staffSeparation", composerspace |-> "composer",
     partsspace |-> "parts", textspace |-> "text", musicspace |-> "music",
     titlespace |-> "title", sysstaffsep |-> "systemStaffSeparation",
     subtitlespace |-> "subtitle", topspace |-> "top", vocalspace |-> "vocal",
     wordsspace |-> "words"]

TuneNow == Val(abctune)
AfterNewTune == call.op = "newTune"
AfterOverrideAndNewTune == AfterNewTune /\ paddingOverride # Undefined

\* C1: after setPaddingOverride(params) and then newTune(doc), each of the four
\* paddings is the document's margin if the document defines it, otherwise the
\* renderer's override if that is defined, otherwise the default: 38 (top,
\* bottom) or 68 (left, right) for print media and 15 for any other.
C1_PaddingPrecedence ==
    AfterOverrideAndNewTune =>
        \A k \in DOMAIN MarginOf :
            LET doc == TuneNow.formatting[MarginOf[k]]
                over == Val(paddingOverride)[k]
            IN  padding[k] =
                    IF doc # Undefined THEN doc
                    ELSE IF over # Undefined THEN over
                    ELSE IF TuneNow.media = "print" THEN Num(PrintDefault[k])
                    ELSE Num(Px(15))

\* the document and the override both define the top margin and the
\* document's value was taken; the other three fell to the print defaults
C1_Witness ==
    /\ AfterOverrideAndNewTune
    /\ TuneNow.formatting["topmargin"] = Num(Px(50))
    /\ Val(paddingOverride)["top"] = Num(Px(20))
    /\ TuneNow.media = "print"
    /\ padding = [top |-> Num(Px(50)), bottom |-> Num(Px(38)),
                  left |-> Num(Px(68)), right |-> Num(Px(68))]

\* The case of C2: the document defines only the top margin (50), the
\* renderer's override defines only the bottom one (20), screen media.
C2_Case ==
    /\ AfterOverrideAndNewTune
    /\ TuneNow = Tune(Formatting({"topmargin"}), "screen")
    /\ Val(paddingOverride) = [top |-> Undefined, bottom |-> Num(Px(20)),
                               left |-> Undefined, right |-> Undefined]

\* C2 as stated: that case resolves to top 50, bottom 15, left 15, right 15.
C2_AsStated ==
    C2_Case => padding = [top |-> Num(Px(50)), bottom |-> Num(Px(15)),
                          left |-> Num(Px(15)), right |-> Num(Px(15))]

\* C2 amended: that case resolves to top 50, bottom 20 (the renderer's
\* override), left 15, right 15.
C2_Amended ==
    C2_Case => padding = [top |-> Num(Px(50)), bottom |-> Num(Px(20)),
                          left |-> Num(Px(15)), right |-> Num(Px(15))]

C2_Witness == C2_Case /\ ~threw /\ padding["bottom"] = Num(Px(20))

\* C3: setVerticalSpace on a renderer whose spacing is as reset left it sets
\* each of the 11 overridable entries whose key the formatting defines to
\* value * 4/3, and leaves every other entry at its initVerticalSpace default.
C3_SpacingConversion ==
    (AfterNewTune /\ call.before = initVerticalSpace) =>
        /\ \A k \in SpaceKeys :
              LET v == TuneNow.formatting[k]
              IN  IF v # Undefined
                  THEN spacing[SpacingEntry[k]] * 3 = Px(Val(v)) * 4
                  ELSE spacing[SpacingEntry[k]] = initVerticalSpace[SpacingEntry[k]]
        /\ \A e \in DOMAIN spacing \ {SpacingEntry[k] : k \in SpaceKeys} :
              spacing[e] = initVerticalSpace[e]

\* staffsep 30 gave staffSeparation 40, and the composer space kept 7.56
C3_Witness ==
    /\ AfterNewTune /\ call.before = initVerticalSpace
    /\ TuneNow.formatting["staffsep"] = Num(30)
    /\ TuneNow.formatting["composerspace"] = Undefined
    /\ spacing["staffSeparation"] = Px(40)
    /\ spacing["composer"] = Hundredths(756)

\* C4: after any newTune(doc), every overridable spacing entry whose key the
\* document leaves undefined holds its default, whatever tunes came before.
C4_DefaultsRestored ==
    AfterNewTune =>
        \A k \in SpaceKeys :
            TuneNow.formatting[k] = Undefined =>
                spacing[SpacingEntry[k]] = initVerticalSpace[SpacingEntry[k]]

----------------------------------------------------------------------------
(* The pitch mapping and the cursor *)

LayoutState == <<y, abctune, lastM, ingroup, path, isPrint, spacing, padding,
                 paddingOverride, measureNumber, noteNumber, lineNumber,
                 voiceNumber, shouldAddClasses, canvas, history>>

\* the repetitions of a moveY call, 1 when the argument was omitted
Times(n) == IF n = Undefined THEN 1 ELSE Val(n)

\* C5: calcY(offset) returns y - offset*STEP and changes no renderer state;
\* moveY(a, n) adds exactly a*n to y, n omitted counting as 1, so that every
\* calcY(offset) is a*n larger after it; and calcY is strictly decreasing in
\* the offset.
C5_CalcYAndMoveY ==
    /\ [][call'.op = "calcY" =>
            /\ ret' = Num(y - (call'.ofs * STEP) \div 10)
            /\ UNCHANGED LayoutState]_vars
    /\ [][call'.op = "moveY" =>
            /\ y' = y + call'.em * Times(call'.numLines)
            /\ \A o \in Pitches :
                  calcY(o)' = calcY(o) + call'.em * Times(call'.numLines)]_vars
    /\ [](\A o1, o2 \in Pitches : o1 < o2 => calcY(o1) > calcY(o2))

\* the cursor was moved up by 6 with the repetitions omitted
C5_Witness ==
    /\ call.op = "moveY" /\ call.em = Px(-6) /\ call.numLines = Undefined
    /\ pre = Hundredths(756) * 2
    /\ y = Hundredths(756) * 2 - Px(6)
    /\ ret = Undefined

----------------------------------------------------------------------------
(* Text output *)

AfterOutputTextIf == call.op = "outputTextIf"
FalsyTexts == {Undefined, Null, Str(<<>>)}

\* C6: outputTextIf with an empty or otherwise falsy str returns (0,0) and,
\* whatever marginTop and marginBottom are, leaves the cursor where it was,
\* draws nothing on the canvas and records nothing in the history.
C6_FalsyTextIsNoOp ==
    [][(call'.op = "outputTextIf" /\ call'.str \in FalsyTexts) =>
            /\ ret' = Obj(<<Num(0), Num(0)>>)
            /\ y' = y
            /\ canvas' = canvas
            /\ history' = history]_vars

\* an empty str with a top margin and a bottom margin, after a text was drawn
\* and the cursor moved
C6_Witness ==
    /\ AfterOutputTextIf /\ call.str = Str(<<>>)
    /\ call.marginTop = Num(Px(25)) /\ call.marginBottom = Num(1)
    /\ y = pre /\ y > 0 /\ Len(canvas) = 1 /\ Len(history) = 1
    /\ ret = Obj(<<Num(0), Num(0)>>)

\* C7: for a non-empty str, outputTextIf advances the cursor by marginTop and
\* then, when marginBottom is not null, by exactly (measuredHeight/lineCount)
\* * (lineCount + marginBottom), measuredHeight being the height getTextSize
\* returns for str (box margin included); for every font, boxed or not.
C7_AdvanceByMeasuredHeight ==
    (AfterOutputTextIf /\ call.str \notin FalsyTexts /\ ~threw
        /\ IsNum(call.measured.height)) =>
        LET measuredHeight == Val(getTextSize(call.measured, call.kind).height)
            lineCount == NumLines(Val(call.str))
            top == IF call.marginTop \in {Undefined, Null} THEN 0
                   ELSE Val(call.marginTop)
        IN  (y - pre) * lineCount =
                top * lineCount +
                (IF call.marginBottom = Null THEN 0
                 ELSE measuredHeight * (lineCount + Val(call.marginBottom)))

----------------------------------------------------------------------------
(* The path accumulator *)

\* the sum of the displacements of the "m" commands among cmds
RECURSIVE SumM(_)
SumM(cmds) ==
    IF cmds = <<>> THEN <<0, 0>>
    ELSE LET r == SumM(Tail(cmds))
             c == Head(cmds)
         IN  IF c[1] = "m" THEN <<c[2] + r[1], c[3] + r[2]>> ELSE r

\* the number of commands of the first n fragments
RECURSIVE CommandsOf(_, _)
CommandsOf(frags, n) ==
    IF n = 0 THEN 0 ELSE Len(frags[n]) + CommandsOf(frags, n - 1)

\* the fragments' commands in call order, each leading move made relative to
\* the origin reached before it
RECURSIVE Compound(_, _)
Compound(frags, origin) ==
    IF frags = <<>> THEN <<>>
    ELSE LET f == Head(frags)
             first == <<"m", f[1][2] - origin[1], f[1][3] - origin[2]>>
             inside == SumM(Tail(f))
         IN  <<first>> \o Tail(f)
                \o Compound(Tail(frags), <<f[1][2] + inside[1], f[1][3] + inside[2]>>)

\* C8: endGroup after beginGroup emits exactly one filled path, recorded once
\* in the history, if a non-empty fragment was added since that beginGroup,
\* and emits nothing, records nothing and returns null if none was; either
\* way the accumulator is empty and the renderer no longer grouping afterward.
C8_EndGroupEmitsOnce ==
    [][(call'.op = "endGroup" /\ ingroup) =>
            /\ IF added # <<>>
               THEN /\ Len(canvas') = Len(canvas) + 1
                    /\ SubSeq(canvas', 1, Len(canvas)) = canvas
                    /\ canvas'[Len(canvas')].type = "path"
                    /\ canvas'[Len(canvas')].fill = "#000000"
                    /\ history' = Append(history, Recorded(canvas'[Len(canvas')], FALSE))
                    /\ ret' = Obj(canvas'[Len(canvas')])
               ELSE /\ canvas' = canvas
                    /\ history' = history
                    /\ ret' = Null
            /\ path' = Obj(<<>>)
            /\ ~ingroup']_vars

\* a group of two fragments was ended: one path on the canvas, one record
C8_Witness ==
    /\ call.op = "endGroup" /\ ~threw /\ ret # Null
    /\ Len(canvas) = 1 /\ Len(history) = 1 /\ history[1].el = canvas[1]
    /\ Len(canvas[1].path) > 12
    /\ path = Obj(<<>>) /\ ~ingroup

\* C9: within one group the leading move of every fragment handed to addPath
\* is rewritten to a relative "m" by the fragment's absolute origin minus
\* lastM, so that the "m" displacements of the pending path up to and
\* including fragment i's leading move sum to fragment i's absolute origin;
\* lastM is the sum of all the "m" displacements of the pending path; and
\* endGroup emits the concatenation of the fragments' commands in call order.
C9_RelativeMoves ==
    /\ [](ingroup =>
            /\ \A i \in 1..Len(added) :
                  LET at == CommandsOf(added, i - 1) + 1
                  IN  /\ Val(path)[at][1] = "m"
                      /\ SumM(SubSeq(Val(path), 1, at))
                            = <<added[i][1][2], added[i][1][3]>>
            /\ Val(lastM) = SumM(Val(path))
            /\ Val(path) = Compound(added, <<0, 0>>))
    /\ [][(call'.op = "endGroup" /\ ingroup /\ added # <<>>) =>
            canvas'[Len(canvas')].path = PathString(Compound(added, <<0, 0>>))]_vars

\* two fragments were added, the first with a move inside: the second leading
\* move is relative to where the first fragment ended
C9_Witness ==
    /\ ingroup /\ call.op = "addPath" /\ Len(added) = 2
    /\ added[1][1] = <<"M", 10, 20>> /\ added[2][1] = <<"M", 3, 4>>
    /\ Val(path)[6] = <<"m", -12, -21>>
    /\ Val(lastM) = <<3, 4>>

----------------------------------------------------------------------------
(* The glyph composer *)

\* a symbol drawn one glyph per character: more than one character, no ".",
\* and every character in the glyph table
Sequence(symbol) ==
    /\ symbol \notin FalsyTexts
    /\ Len(Val(symbol)) > 1
    /\ \A i \in 1..Len(Val(symbol)) :
          Val(symbol)[i] # "." /\ HasGlyph(<<Val(symbol)[i]>>)

\* 24 times the kerning ratio of a pair: 2/3, 5/6, 5/8, or 1
Kern24(a, b) ==
    IF a = "f" /\ b = "f" THEN 16
    ELSE IF a = "p" /\ b = "p" THEN 20
    ELSE IF a = "f" /\ b = "z" THEN 15
    ELSE 24

\* 24 times the advance up to glyph i: the kerned widths of the glyphs before
RECURSIVE Advance24(_, _)
Advance24(symbol, i) ==
    IF i <= 1 THEN 0
    ELSE Advance24(symbol, i - 1)
            + Kern24(symbol[i - 1], symbol[i]) * getSymbolWidth(<<symbol[i - 1]>>)

\* C10: for a multi-character symbol without "." whose glyphs are all in the
\* glyph table, printSymbol places glyph i at x plus the sum over j < i of
\* kern(s_j, s_j+1) * width(s_j), kern being 2/3 for ("f","f"), 5/6 for
\* ("p","p"), 5/8 for ("f","z") and 1 for every other pair.
C10_KernedOffsets ==
    (call.op = "printSymbol" /\ Sequence(call.symbol)) =>
        /\ ~threw
        /\ Len(Val(ret).children) = Len(Val(call.symbol))
        /\ \A i \in 1..Len(Val(call.symbol)) :
              /\ Val(ret).children[i].glyph = <<Val(call.symbol)[i]>>
              /\ (Val(ret).children[i].x - call.x) * 24
                    = Advance24(Val(call.symbol), i)

\* "ffz" was drawn: the second f at 2/3 of the width of f, the z a further
\* 5/8 of it
C10_Witness ==
    /\ call.op = "printSymbol" /\ call.symbol = Str(<<"f", "f", "z">>)
    /\ Val(ret).children[2].x = call.x + (Px(16) * 2) \div 3
    /\ Val(ret).children[3].x * 24 = call.x * 24 + Px(16) * 16 + Px(16) * 15
    /\ canvas[Len(canvas)] = Val(ret)

\* a symbol for which printSymbol asks the glyph table for a glyph it does
\* not have: some character of a sequence, or the single symbol itself
MissingGlyph(symbol) ==
    /\ symbol \notin FalsyTexts
    /\ IF Len(Val(symbol)) > 1 /\ ~HasDot(Val(symbol))
       THEN \E i \in 1..Len(Val(symbol)) : ~HasGlyph(<<Val(symbol)[i]>>)
       ELSE ~HasGlyph(Val(symbol))

\* the canvas shows the diagnostic text of symbol, on its own or in a group
MarkerOnCanvas(x, symbol) ==
    \E i \in 1..Len(canvas) :
        \/ canvas[i] = DebugText(x, Val(symbol))
        \/ /\ canvas[i].type = "group"
           /\ \E j \in 1..Len(canvas[i].children) :
                 canvas[i].children[j] = DebugText(x, Val(symbol))

\* C11: with a tune loaded, printSymbol of a symbol the glyph table has no
\* geometry for returns without throwing and leaves the diagnostic text
\* "no symbol:..." on the canvas, in a sequence, for a single symbol outside
\* a group and for a single symbol inside a group.
C11_MissingGlyphMarked ==
    (call.op = "printSymbol" /\ abctune # Null /\ MissingGlyph(call.symbol)) =>
        /\ ~threw
        /\ MarkerOnCanvas(call.x, call.symbol)

----------------------------------------------------------------------------
(* Ties and slurs *)

\* the chord between the shifted endpoints of a logged drawArc call, and the
\* sides of the chord divided by their common measure
ArcMaxFlatten(a) == IF a.isTie THEN Px(10) ELSE Px(25)
ArcShift(a) == (IF a.above THEN 1 ELSE -1) * (IF a.isTie THEN 12 ELSE 15)
ChordDx(l) == l.x2 - l.x1
ChordDy(l) == l.y2 - l.y1
ChordG(l) == Gcd(Abs(ChordDx(l)), Abs(ChordDy(l)))

\* norm is the length of the chord
IsChordLength(l) ==
    IF ChordG(l) = 0 THEN l.norm = 0
    ELSE /\ l.norm > 0 /\ l.norm % ChordG(l) = 0
         /\ (l.norm \div ChordG(l)) * (l.norm \div ChordG(l))
               = (ChordDx(l) \div ChordG(l)) * (ChordDx(l) \div ChordG(l))
                 + (ChordDy(l) \div ChordG(l)) * (ChordDy(l) \div ChordG(l))

\* C12: in every drawArc call the endpoints are x1+6 and x2+4 at the calcY
\* of the pitches shifted by 1.2 (tie) or 1.5 (slur), up when above and down
\* otherwise; the bow curve has magnitude min(maxFlatten, max(4, norm/3.5)),
\* maxFlatten 10 for a tie and 25 for a slur, so 4 <= |curve| <= maxFlatten;
\* and curve is negative exactly when above.
C12_CurveClamped ==
    \A i \in 1..Len(arcs) :
        LET a == arcs[i].args
            l == arcs[i].locals
        IN  /\ l.x1 = a.x1 + Px(6) /\ l.x2 = a.x2 + Px(4)
            /\ l.pitch1 = a.pitch1 + ArcShift(a)
            /\ l.pitch2 = a.pitch2 + ArcShift(a)
            /\ l.y1 * 10 = arcs[i].at * 10 - l.pitch1 * STEP
            /\ l.y2 * 10 = arcs[i].at * 10 - l.pitch2 * STEP
            /\ IsChordLength(l)
            /\ 7 * Abs(l.curve)
                  = Min(7 * ArcMaxFlatten(a), Max(7 * Px(4), 2 * l.norm))
            /\ Px(4) <= Abs(l.curve) /\ Abs(l.curve) <= ArcMaxFlatten(a)
            /\ (l.curve < 0) <=> a.above

\* a level slur of 140 px above, bowed by the full 25 px, after a level tie
\* of 7 px below, bowed by 4 px
C12_Witness ==
    /\ Len(arcs) = 2 /\ call.op = "drawArc"
    /\ ~arcs[1].args.above /\ arcs[1].args.isTie
    /\ arcs[1].locals.norm = Px(7) /\ arcs[1].locals.curve = Px(4)
    /\ arcs[1].locals.controly1 = Num(arcs[1].locals.y1 + Px(4))
    /\ arcs[2].args.above /\ ~arcs[2].args.isTie
    /\ arcs[2].locals.norm = Px(140) /\ arcs[2].locals.curve = -Px(25)
    /\ arcs[2].locals.controly1 = Num(arcs[2].locals.y1 - Px(25))

\* C13: in every drawArc call each control point lies at least 4 and at
\* most maxFlatten (10 for a tie, 25 for a slur) along the chord from its
\* endpoint: the tangential offset is norm/3.5 clamped to [4, maxFlatten].
C13_FlattenClamped ==
    \A i \in 1..Len(arcs) :
        LET a == arcs[i].args
            l == arcs[i].locals
            g == ChordG(l)
            n == l.norm \div g
            \* n times the offset along the chord, from x1,y1 and back from x2,y2
            along1 == (Val(l.controlx1) - l.x1) * (ChordDx(l) \div g)
                        + (Val(l.controly1) - l.y1) * (ChordDy(l) \div g)
            along2 == (l.x2 - Val(l.controlx2)) * (ChordDx(l) \div g)
                        + (l.y2 - Val(l.controly2)) * (ChordDy(l) \div g)
        IN  l.norm > 0 =>
               /\ Px(4) * n <= along1 /\ along1 <= ArcMaxFlatten(a) * n
               /\ Px(4) * n <= along2 /\ along2 <= ArcMaxFlatten(a) * n

\* both outer control points of a logged call are above both its endpoints
BowsUpward(l) ==
    /\ IsNum(l.controly1) /\ IsNum(l.controly2)
    /\ Val(l.controly1) < l.y1 /\ Val(l.controly1) < l.y2
    /\ Val(l.controly2) < l.y1 /\ Val(l.controly2) < l.y2

\* both outer control points of a logged call are on the upper side of the
\* line through its endpoints, which run left to right
OverTheChord(l) ==
    /\ l.x2 > l.x1
    /\ IsNum(l.controly1) /\ IsNum(l.controly2)
    /\ (Val(l.controly1) - l.y1) * (ChordDx(l) \div ChordG(l))
          < (Val(l.controlx1) - l.x1) * (ChordDy(l) \div ChordG(l))
    /\ (Val(l.controly2) - l.y2) * (ChordDx(l) \div ChordG(l))
          < (Val(l.controlx2) - l.x2) * (ChordDy(l) \div ChordG(l))

\* C14 as stated: for every drawArc call with above = true both outer control
\* points have y-values smaller than the y of both endpoints.
C14_AsStated ==
    \A i \in 1..Len(arcs) : arcs[i].args.above => BowsUpward(arcs[i].locals)

\* C14: for a drawArc call with above = true and x2+4 > x1+6 both outer
\* control points lie above the chord through the endpoints, and when the
\* two shifted pitches are equal as well their y-values are smaller than the
\* y of both endpoints.
C14_Amended ==
    \A i \in 1..Len(arcs) :
        LET l == arcs[i].locals
        IN  (arcs[i].args.above /\ l.x2 > l.x1) =>
               /\ OverTheChord(l)
               /\ l.y1 = l.y2 => BowsUpward(l)

\* a level slur of 28 px above, its control points 8 px over the endpoints,
\* after a slur above falling 14 steps whose first control point is under
\* its first endpoint
C14_Witness ==
    /\ Len(arcs) = 2 /\ call.op = "drawArc"
    /\ arcs[1].args.above /\ ~arcs[1].args.isTie
    /\ arcs[1].args.pitch2 = arcs[1].args.pitch1 - 140
    /\ Val(arcs[1].locals.controly1) > arcs[1].locals.y1
    /\ arcs[2].args.above /\ ~arcs[2].args.isTie
    /\ arcs[2].locals.norm = Px(28)
    /\ arcs[2].locals.controly1 = Num(arcs[2].locals.y1 - Px(8))
    /\ arcs[2].locals.controly2 = Num(arcs[2].locals.y1 - Px(8))

\* the layout state of the renderer: all but the canvas and the history
ArcFrame == <<y, abctune, lastM, ingroup, path, isPrint, spacing, padding,
              paddingOverride, measureNumber, noteNumber, lineNumber,
              voiceNumber, shouldAddClasses>>

\* C15 as stated: two drawArc calls with identical inputs (x1, x2, pitch1,
\* pitch2, above, isTie) draw identical paths whatever ran between them, and
\* drawArc leaves the cursor and the layout state unchanged.
C15_AsStated ==
    /\ [](\A i, j \in 1..Len(arcs) :
            arcs[i].args = arcs[j].args => arcs[i].el.path = arcs[j].el.path)
    /\ [][call'.op = "drawArc" => UNCHANGED ArcFrame]_vars

\* the positions of the y-coordinates among the tokens of an arc's path
ArcYTokens == {3, 6, 8, 10, 13, 15, 17}

\* path q is path p moved down by d: the y-coordinates d larger, in
\* millionths of a pixel, and every other token the same
MovedDown(p, q, d) ==
    \A k \in 1..Len(p) :
        IF k \in ArcYTokens /\ p[k][1] = "n"
        THEN q[k] = <<"n", p[k][2] + (d * 2500) \div 3>>
        ELSE q[k] = p[k]

\* C15: the geometry drawArc produces is a function of its six inputs and of
\* the cursor y at the call: two calls with identical inputs at the same
\* cursor draw identical paths whatever ran between them, two such calls at
\* cursors d apart draw the same path moved down by d, and drawArc leaves the
\* cursor and the layout state unchanged.
C15_Amended ==
    /\ [](\A i, j \in 1..Len(arcs) :
            arcs[i].args = arcs[j].args =>
                MovedDown(arcs[i].el.path, arcs[j].el.path,
                          arcs[j].at - arcs[i].at))
    /\ [][call'.op = "drawArc" =>
            /\ UNCHANGED ArcFrame
            /\ arcs'[Len(arcs')].at = y]_vars

\* the same slur was drawn before and after the cursor moved by 45 px: the
\* second path starts 45 px lower
C15_Witness ==
    /\ Len(arcs) = 2 /\ call.op = "drawArc"
    /\ arcs[1].args = arcs[2].args
    /\ arcs[1].at = 0 /\ arcs[2].at = Px(45) /\ y = Px(45)
    /\ arcs[2].el.path[3][2] = arcs[1].el.path[3][2] + 45 * 1000000
    /\ canvas[2] = arcs[2].el

----------------------------------------------------------------------------
(* The render pass *)

PassOps ==
    {"topMargin", "engraveTopText", "addMusicPadding", "addStaffPadding",
     "outputSubtitle", "outputFreeText", "outputSeparator", "engraveExtraText"}

\* C16: no operation of a render pass (topMargin, engraveTopText,
\* addMusicPadding, addStaffPadding, outputSubtitle, outputFreeText,
\* outputSeparator, engraveExtraText) ends with the cursor y lower than it was
\* when the operation began, for every document and measured text size.
C16_CursorNeverRises ==
    call.op \in PassOps => y >= pre

----------------------------------------------------------------------------
(* The history sink *)

\* element el has a record in the history
Registered(el) == \E j \in 1..Len(history) : history[j].el = el
IsStaffGroup(el) == el.type = "group" /\ "prepend" \in DOMAIN el

\* C17: every element on the canvas has a record in the history, whichever of
\* printStem (outside a group), printStave, printSeparator,
\* addInvisibleMarker, printPath (with any params), drawArc, renderText,
\* printSymbol and endGroup emitted it, and the record of a staff group says
\* not selectable.
C17_EveryElementRegistered ==
    /\ \A i \in 1..Len(canvas) : Registered(canvas[i])
    /\ \A j \in 1..Len(history) :
          IsStaffGroup(history[j].el) => history[j].notSelectable

\* C18: newTune(doc) does not throw and leaves each of the four paddings a
\* number, for every document formatting and every renderer state, a renderer
\* on which setPaddingOverride was never called included.
C18_NewTuneCompletes ==
    AfterNewTune => ~threw /\ \A k \in DOMAIN MarginOf : IsNum(padding[k])

----------------------------------------------------------------------------
(* The resolved padding and the document *)

PaddingResolved == abctune # Null /\ \A k \in DOMAIN padding : IsNum(padding[k])

\* C19: once newTune has resolved the four paddings, no operation other than
\* the next newTune (adjustNonScaledItems in particular) changes any of them,
\* nor any field of the document's formatting, so that the document holds
\* the same font sizes when it is rendered again.
C19_ResolvedStaysFixed ==
    [][PaddingResolved /\ call'.op # "newTune"
          => padding' = padding /\ abctune' = abctune]_vars

----------------------------------------------------------------------------
(* Idle and grouping *)

\* ingroup follows the calls: true after beginGroup, false after endGroup and
\* reset, and otherwise what it was
IngroupFollowsCalls ==
    ingroup' = IF call'.op = "beginGroup" THEN TRUE
               ELSE IF call'.op \in {"endGroup", "reset"} THEN FALSE
               ELSE ingroup
\* an endGroup that emits a path emits none of the fragments that addPath
\* was handed outside a group
IdleFragmentsStayOut ==
    call'.op = "endGroup" /\ Len(canvas') > Len(canvas) => idle = {}
\* addPath outside a group returns
IdleAddPathReturns ==
    call'.op = "addPath" /\ ~ingroup => ~threw'

\* C20: over any sequence of reset, beginGroup, addPath, printStem and
\* endGroup, ingroup is true exactly from a beginGroup to the next endGroup or
\* reset; a fragment handed to addPath outside a group is in no path that a
\* later endGroup emits, and that addPath call does not throw.
C20_AddPathOnlyWhileGrouping ==
    [][IngroupFollowsCalls /\ IdleFragmentsStayOut /\ IdleAddPathReturns]_vars

----------------------------------------------------------------------------
(* The separation of staff systems *)

\* the natural separation of the last staff of group last and the first staff
\* of group next
NaturalSeparation(last, next) ==
    ((next.staffs[1].top - 10) - (last.staffs[Len(last.staffs)].bottom - 2)) * STEP

\* C21: addStaffPadding(last, next) moves the cursor y down by exactly
\* max(0, staffSeparation - S), S the natural separation of the last staff of
\* last and the first staff of next in pixels; y never decreases, S plus the
\* advance is at least staffSeparation, and nothing else of the renderer
\* changes.
C21_StaffPaddingFillsDeficit ==
    [][call'.op = "addStaffPadding" =>
          LET S == NaturalSeparation(call'.last, call'.next)
          IN  /\ y' = y + Max(0, spacing.staffSeparation - S)
              /\ y' >= y
              /\ S + (y' - y) >= spacing.staffSeparation
              /\ UNCHANGED <<abctune, lastM, ingroup, path, isPrint, spacing,
                             padding, paddingOverride, measureNumber,
                             noteNumber, lineNumber, voiceNumber,
                             shouldAddClasses, canvas, history>>]_vars

\* reached: a padding that filled a deficit below a group of two staffs that
\* end at different pitches, under a document's own staffsep
C21_Witness ==
    /\ call.op = "addStaffPadding"
    /\ y > pre
    /\ call.last.staffs[1].bottom # call.last.staffs[2].bottom
    /\ spacing.staffSeparation # initVerticalSpace.staffSeparation

----------------------------------------------------------------------------
(* Class names *)

AbcjsPrefix == <<"a", "b", "c", "j", "s", "-">>
\* the words of a class string, and how often word w is among them
ClassWords(str) == Split(Val(str))
Occurrences(str, w) ==
    Cardinality({i \in 1..Len(ClassWords(str)) : ClassWords(str)[i] = w})
NumberWord(letter, v) == AbcjsPrefix \o <<letter>> \o NumberString(Val(v))
\* word w is the prefix, the letter and digits
IsNumberWord(w, letter) ==
    /\ StartsWith(w, AbcjsPrefix \o <<letter>>)
    /\ Len(w) > Len(AbcjsPrefix) + 1
    /\ \A i \in (Len(AbcjsPrefix) + 2)..Len(w) :
          \E d \in 1..Len(Digit) : w[i] = Digit[d]
\* the class string holds the word of a number exactly when the number is set
NumberShown(str, letter, v, wanted) ==
    IF IsSet(v) /\ wanted
    THEN Occurrences(str, NumberWord(letter, v)) = 1
    ELSE \A i \in 1..Len(ClassWords(str)) : ~IsNumberWord(ClassWords(str)[i], letter)
NamesNote(c) ==
    Truthy(c) /\ \E w \in {<<"n", "o", "t", "e">>, <<"r", "e", "s", "t">>, <<"l", "y", "r", "i", "c">>} : HasSub(Val(c), w)

\* C22: the string addClasses(c) returns has every non-empty word prefixed
\* with abcjs-, holds no word twice, holds l<line>, m<measure> and v<voice>
\* exactly for the numbers that are set and n<note> only for a class naming
\* a note, a rest or a lyric with the note number set, and is empty when
\* shouldAddClasses is off; and the class of an arc that drawArc draws with
\* shouldAddClasses on holds the word abcjs-slur exactly once.
C22_ClassesWellFormed ==
    /\ call.op = "addClasses" =>
          IF ~shouldAddClasses THEN ret = Str(<<>>)
          ELSE /\ \A i \in 1..Len(ClassWords(ret)) :
                     LET w == ClassWords(ret)[i]
                     IN  w # <<>> => /\ StartsWith(w, AbcjsPrefix)
                                     /\ Occurrences(ret, w) = 1
               /\ NumberShown(ret, "l", lineNumber, TRUE)
               /\ NumberShown(ret, "m", measureNumber, TRUE)
               /\ NumberShown(ret, "v", voiceNumber, TRUE)
               /\ NumberShown(ret, "n", noteNumber, NamesNote(call.c))
    /\ call.op = "drawArc" /\ shouldAddClasses =>
          Occurrences(Val(ret).class, AbcjsPrefix \o <<"s", "l", "u", "r">>) = 1

====
